---- MODULE Spec2Model ----
(***************************************************************************)
(* Model of the /ai-stream endpoint of src/ai_answers.py: configuration   *)
(* loading, token verification, the upstream call and the two stream      *)
(* decoders (concatenated JSON for Gemini, event stream for the           *)
(* OpenAI-compatible providers).                                           *)
(*                                                                         *)
(* Text is a sequence of one-character strings.  The wire alphabet keeps  *)
(* the JSON punctuation, the digits, the letters of "data: ", "[DONE]"    *)
(* and "null", and one-letter stand-ins for the JSON keys:                *)
(*   c = candidates, n = content, p = parts, t = text,                    *)
(*   h = choices,    d = delta                                             *)
(* Two byte symbols model a two-byte UTF-8 character: LeadByte followed   *)
(* by ContByte decodes to WideChar; any other use of them is an invalid   *)
(* sequence and decodes to ReplChar (errors='replace').                    *)
(***************************************************************************)
EXTENDS Integers, Sequences, FiniteSets, TLC

(***************************************************************************)
(* Bounds                                                                  *)
(***************************************************************************)
\* number of units (documents, lines, junk) concatenated into one upstream body
MaxUnits == 2
\* largest chunk, in bytes, that the transport delivers after the first one
\* (the first chunk, and the one that ends the body, have any size)
MaxChunk == 2
\* zero-length chunks the transport delivers within one response
MaxEmpties == 1
\* resolution of the clock: time.time() is read in ticks of 1 / TicksPerSecond s
TicksPerSecond == 2

(***************************************************************************)
(* Program constants                                                       *)
(***************************************************************************)
TOKEN_EXPIRY_SEC == 3600

\* n seconds, in ticks of the clock
Seconds(n) == n * TicksPerSecond

(***************************************************************************)
(* Characters and bytes                                                    *)
(***************************************************************************)
QUOTE == "\""
NL == "\n"
SP == " "
LeadByte == "C3"
ContByte == "A9"
WideChar == "U+E9"
ReplChar == "U+FFFD"

\* the digits, as float() and the JSON number scanner read them
DigitVal(c) ==
  CASE c = "0" -> 0 [] c = "1" -> 1 [] c = "2" -> 2 [] c = "3" -> 3
    [] c = "4" -> 4 [] c = "5" -> 5 [] c = "6" -> 6 [] c = "7" -> 7
    [] c = "8" -> 8 [] c = "9" -> 9 [] OTHER -> -1

IsDigit(c) == DigitVal(c) >= 0

RECURSIVE DecimalValue(_, _, _)
DecimalValue(s, i, acc) ==
  IF i > Len(s) THEN acc ELSE DecimalValue(s, i + 1, 10 * acc + DigitVal(s[i]))

\* float(ts) for the timestamps of the model: decimal digits with an optional
\* trailing point, or "nan"; anything else raises ValueError
ParseFloat(s) ==
  LET body == IF s # <<>> /\ s[Len(s)] = "." THEN SubSeq(s, 1, Len(s) - 1) ELSE s
  IN  IF s = <<"n", "a", "n">> THEN [err |-> FALSE, nan |-> TRUE, val |-> 0]
      ELSE IF body # <<>> /\ \A i \in 1 .. Len(body) : IsDigit(body[i])
             THEN [err |-> FALSE, nan |-> FALSE, val |-> DecimalValue(body, 1, 0)]
      ELSE [err |-> TRUE, nan |-> FALSE, val |-> 0]

\* str(n) for an integer n >= 0
RECURSIVE DecimalDigits(_)
DecimalDigits(n) ==
  LET last == <<CHOOSE c \in {"0", "1", "2", "3", "4", "5", "6", "7", "8", "9"} :
                  DigitVal(c) = n % 10>>
  IN  IF n < 10 THEN last ELSE DecimalDigits(n \div 10) \o last

\* str.lstrip() / str.strip() and the JSON scanner's whitespace, on this alphabet
IsSpace(c) == c \in {SP, NL}

\* index of the first character at or after i that is not whitespace
RECURSIVE SkipWs(_, _)
SkipWs(s, i) ==
  IF i <= Len(s) /\ IsSpace(s[i]) THEN SkipWs(s, i + 1) ELSE i

\* index of the last character at or before i that is not whitespace
RECURSIVE SkipWsBack(_, _)
SkipWsBack(s, i) ==
  IF i >= 1 /\ IsSpace(s[i]) THEN SkipWsBack(s, i - 1) ELSE i

LStrip(s) == SubSeq(s, SkipWs(s, 1), Len(s))

Strip(s) == SubSeq(s, SkipWs(s, 1), SkipWsBack(s, Len(s)))

StartsWith(s, p) == Len(s) >= Len(p) /\ SubSeq(s, 1, Len(p)) = p

(***************************************************************************)
(* codecs incremental UTF-8 decoder, errors='replace'                      *)
(***************************************************************************)
\* What the byte at index i contributes: a lead byte with its continuation
\* gives the character, that continuation gives nothing more, a lead byte
\* without continuation or a continuation without lead byte is replaced, and
\* a lead byte that ends the input waits for more unless the input is final.
NoChar == ""

Utf8At(bytes, i, final) ==
  IF bytes[i] = LeadByte THEN
    IF i = Len(bytes) THEN IF final THEN ReplChar ELSE NoChar
    ELSE IF bytes[i + 1] = ContByte THEN WideChar ELSE ReplChar
  ELSE IF bytes[i] = ContByte THEN
    IF i > 1 /\ bytes[i - 1] = LeadByte THEN NoChar ELSE ReplChar
  ELSE bytes[i]

Utf8Run(bytes, final) ==
  LET IsChar(c) == c # NoChar
  IN  [out |-> SelectSeq([i \in 1 .. Len(bytes) |-> Utf8At(bytes, i, final)], IsChar),
       pending |-> IF ~final /\ bytes # <<>> /\ bytes[Len(bytes)] = LeadByte
                     THEN <<LeadByte>> ELSE <<>>]

\* mutant: every chunk decoded on its own, chunk.decode('utf-8', errors='replace')
Utf8PerChunk(pend, chunk) == Utf8Run(chunk, TRUE)

\* utf8_decoder.decode(chunk, final=False) with the decoder's retained bytes
Utf8Incremental(pend, chunk) == Utf8Run(pend \o chunk, FALSE)

\* bytes.decode('utf-8', errors='replace')
Utf8DecodeAll(bytes) == Utf8Run(bytes, TRUE).out

(***************************************************************************)
(* json.JSONDecoder().raw_decode                                           *)
(*                                                                         *)
(* JSON values are tagged records:                                         *)
(*   [k |-> "obj",  kv |-> sequence of <<key, value>>]                     *)
(*   [k |-> "list", el |-> sequence of values]                             *)
(*   [k |-> "str",  s  |-> text]                                           *)
(*   [k |-> "num",  ds |-> digits]                                         *)
(*   [k |-> "null"]                                                        *)
(* A scan returns [ok |-> TRUE, v |-> value, e |-> index after the value]  *)
(* or [ok |-> FALSE] for json.JSONDecodeError.                             *)
(***************************************************************************)
ScanFail == [ok |-> FALSE]

\* scanstring, strict: the index of the closing quote of the string whose
\* first character is at i, or 0 when a control character or the end of the
\* input comes first
RECURSIVE StringEnd(_, _)
StringEnd(s, i) ==
  IF i > Len(s) \/ s[i] = NL THEN 0
  ELSE IF s[i] = QUOTE THEN i
  ELSE StringEnd(s, i + 1)

ScanString(s, i) ==
  LET q == StringEnd(s, i)
  IN  IF q = 0 THEN ScanFail
      ELSE [ok |-> TRUE, v |-> [k |-> "str", s |-> SubSeq(s, i, q - 1)], e |-> q + 1]

RECURSIVE ScanDigits(_, _)
ScanDigits(s, i) ==
  IF i <= Len(s) /\ IsDigit(s[i]) THEN ScanDigits(s, i + 1) ELSE i

\* NUMBER_RE: (0|[1-9]\d*), integers only
ScanNumber(s, i) ==
  LET e == IF s[i] = "0" THEN i + 1 ELSE ScanDigits(s, i)
  IN  [ok |-> TRUE, v |-> [k |-> "num", ds |-> SubSeq(s, i, e - 1)], e |-> e]

RECURSIVE ScanOnce(_, _), ScanMembers(_, _, _), ScanElements(_, _, _)

\* JSONObject after a key's opening quote at index i - 1
ScanMembers(s, i, acc) ==
  LET key == ScanString(s, i)
  IN  IF ~key.ok THEN ScanFail
      ELSE LET c == SkipWs(s, key.e)
           IN  IF c > Len(s) \/ s[c] # ":" THEN ScanFail
               ELSE LET val == ScanOnce(s, SkipWs(s, c + 1))
                    IN  IF ~val.ok THEN ScanFail
                        ELSE LET m   == SkipWs(s, val.e)
                                 kv2 == Append(acc, <<key.v.s, val.v>>)
                             IN  IF m > Len(s) THEN ScanFail
                                 ELSE IF s[m] = "}"
                                        THEN [ok |-> TRUE, v |-> [k |-> "obj", kv |-> kv2], e |-> m + 1]
                                 ELSE IF s[m] = ","
                                        THEN LET q == SkipWs(s, m + 1)
                                             IN  IF q > Len(s) \/ s[q] # QUOTE THEN ScanFail
                                                 ELSE ScanMembers(s, q + 1, kv2)
                                 ELSE ScanFail

\* JSONArray: i is the index of the next element
ScanElements(s, i, acc) ==
  LET val == ScanOnce(s, i)
  IN  IF ~val.ok THEN ScanFail
      ELSE LET m   == SkipWs(s, val.e)
               el2 == Append(acc, val.v)
           IN  IF m > Len(s) THEN ScanFail
               ELSE IF s[m] = "]"
                      THEN [ok |-> TRUE, v |-> [k |-> "list", el |-> el2], e |-> m + 1]
               ELSE IF s[m] = "," THEN ScanElements(s, SkipWs(s, m + 1), el2)
               ELSE ScanFail

\* scan_once: one JSON value starting exactly at index i
ScanOnce(s, i) ==
  IF i > Len(s) THEN ScanFail
  ELSE IF s[i] = QUOTE THEN ScanString(s, i + 1)
  ELSE IF s[i] = "{" THEN
         LET j == SkipWs(s, i + 1)
         IN  IF j > Len(s) THEN ScanFail
             ELSE IF s[j] = "}" THEN [ok |-> TRUE, v |-> [k |-> "obj", kv |-> <<>>], e |-> j + 1]
             ELSE IF s[j] = QUOTE THEN ScanMembers(s, j + 1, <<>>)
             ELSE ScanFail
  ELSE IF s[i] = "[" THEN
         LET j == SkipWs(s, i + 1)
         IN  IF j > Len(s) THEN ScanFail
             ELSE IF s[j] = "]" THEN [ok |-> TRUE, v |-> [k |-> "list", el |-> <<>>], e |-> j + 1]
             ELSE ScanElements(s, j, <<>>)
  ELSE IF s[i] = "n" THEN
         IF i + 3 <= Len(s) /\ SubSeq(s, i, i + 3) = <<"n", "u", "l", "l">>
           THEN [ok |-> TRUE, v |-> [k |-> "null"], e |-> i + 4]
           ELSE ScanFail
  ELSE IF IsDigit(s[i]) THEN ScanNumber(s, i)
  ELSE ScanFail

\* decoder.raw_decode(s): (obj, idx) or JSONDecodeError
RawDecode(s) == ScanOnce(s, 1)

(***************************************************************************)
(* Python object protocol, as far as the extraction code uses it           *)
(***************************************************************************)
EmptyDict == [k |-> "obj", kv |-> <<>>]
EmptyList == [k |-> "list", el |-> <<>>]
EmptyStr == [k |-> "str", s |-> <<>>]

\* bool(v)
Truthy(v) ==
  CASE v.k = "obj" -> v.kv # <<>>
    [] v.k = "list" -> v.el # <<>>
    [] v.k = "str" -> v.s # <<>>
    [] v.k = "num" -> v.ds # <<"0">>
    [] OTHER -> FALSE

\* dict.get(key, default) on a JSON object: the last member named key wins
RECURSIVE DictGetFrom(_, _, _, _)
DictGetFrom(kv, i, key, default) ==
  IF i = 0 THEN default
  ELSE IF kv[i][1] = key THEN kv[i][2]
  ELSE DictGetFrom(kv, i - 1, key, default)

DictGet(v, key, default) == DictGetFrom(v.kv, Len(v.kv), key, default)

\* what a generator yields for a truthy value at the text path
DeltaOf(v) == IF v.k = "str" THEN v.s ELSE <<"<", v.k, ">">>

\* An extraction ends in one of: a delta to yield, nothing to yield, or an
\* exception other than JSONDecodeError (AttributeError, IndexError, KeyError,
\* TypeError), which leaves the drain loop and reaches `except Exception`.
NoText == [exc |-> FALSE, has |-> FALSE, text |-> <<>>]
Raised == [exc |-> TRUE, has |-> FALSE, text |-> <<>>]
Yield(v) == IF Truthy(v) THEN [exc |-> FALSE, has |-> TRUE, text |-> DeltaOf(v)] ELSE NoText

\* stream_gemini: candidates[0].content.parts[0].text of one item
GeminiExtract(item) ==
  IF item.k # "obj" THEN Raised
  ELSE LET candidates == DictGet(item, <<"c">>, EmptyList)
       IN  IF ~Truthy(candidates) THEN NoText
           ELSE IF candidates.k # "list" THEN Raised
           ELSE IF candidates.el[1].k # "obj" THEN Raised
           ELSE LET content == DictGet(candidates.el[1], <<"n">>, EmptyDict)
                IN  IF content.k # "obj" THEN Raised
                    ELSE LET parts == DictGet(content, <<"p">>, EmptyList)
                         IN  IF ~Truthy(parts) THEN NoText
                             ELSE IF parts.k # "list" THEN Raised
                             ELSE IF parts.el[1].k # "obj" THEN Raised
                             ELSE Yield(DictGet(parts.el[1], <<"t">>, EmptyStr))

\* stream_openai_compatible: choices[0].delta.content of one parsed line
OpenAIExtract(obj) ==
  IF obj.k # "obj" THEN Raised
  ELSE LET choices == DictGet(obj, <<"h">>, [k |-> "list", el |-> <<EmptyDict>>])
       IN  IF choices.k # "list" \/ choices.el = <<>> THEN Raised
           ELSE IF choices.el[1].k # "obj" THEN Raised
           ELSE LET delta == DictGet(choices.el[1], <<"d">>, EmptyDict)
                IN  IF delta.k # "obj" THEN Raised
                    ELSE Yield(DictGet(delta, <<"n">>, EmptyStr))

(***************************************************************************)
(* stream_gemini: the loop body for one non-empty chunk                    *)
(***************************************************************************)
\* for item in items: ... yield text
RECURSIVE GeminiItems(_, _, _)
GeminiItems(items, i, out) ==
  IF i > Len(items) THEN [out |-> out, exc |-> FALSE]
  ELSE LET x == GeminiExtract(items[i])
       IN  IF x.exc THEN [out |-> out, exc |-> TRUE]
           ELSE GeminiItems(items, i + 1, IF x.has THEN Append(out, x.text) ELSE out)

\* while buffer: ...   (out collects the deltas yielded on the way)
RECURSIVE GeminiDrain(_, _)
GeminiDrain(buf, out) ==
  IF buf = <<>> THEN [buffer |-> <<>>, out |-> out, exc |-> FALSE]
  ELSE LET b == LStrip(buf)
       IN  IF b = <<>> THEN [buffer |-> <<>>, out |-> out, exc |-> FALSE]
           ELSE LET r == RawDecode(b)
                IN  IF ~r.ok THEN [buffer |-> b, out |-> out, exc |-> FALSE]
                    ELSE LET items == IF r.v.k = "list" THEN r.v.el ELSE <<r.v>>
                             done  == GeminiItems(items, 1, out)
                         IN  IF done.exc THEN [buffer |-> b, out |-> done.out, exc |-> TRUE]
                             ELSE GeminiDrain(SubSeq(b, r.e, Len(b)), done.out)

\* mutant: the parsed document is not cut off the buffer
GeminiIterationKeepsDocument(buf) ==
  LET b == LStrip(buf)
      r == RawDecode(b)
  IN  IF b = <<>> THEN [exit |-> TRUE, buffer |-> <<>>]
      ELSE IF ~r.ok THEN [exit |-> TRUE, buffer |-> b]
      ELSE IF GeminiItems(IF r.v.k = "list" THEN r.v.el ELSE <<r.v>>, 1, <<>>).exc
        THEN [exit |-> TRUE, buffer |-> b]
      ELSE [exit |-> FALSE, buffer |-> b]

\* one iteration of `while buffer:` on a non-empty buffer: exit is TRUE when
\* the iteration leaves the loop (break, or an exception of the extraction),
\* buffer is the buffer it leaves behind
GeminiIteration(buf) ==
  LET b == LStrip(buf)
      r == RawDecode(b)
  IN  IF b = <<>> THEN [exit |-> TRUE, buffer |-> <<>>]
      ELSE IF ~r.ok THEN [exit |-> TRUE, buffer |-> b]
      ELSE IF GeminiItems(IF r.v.k = "list" THEN r.v.el ELSE <<r.v>>, 1, <<>>).exc
        THEN [exit |-> TRUE, buffer |-> b]
      ELSE [exit |-> FALSE, buffer |-> SubSeq(b, r.e, Len(b))]

\* one iteration of `for chunk in chunk_gen` with a non-empty chunk
GeminiFeed(pend, buf, chunk) ==
  LET dec == Utf8Incremental(pend, chunk)
      dr  == GeminiDrain(buf \o dec.out, <<>>)
  IN  [pending |-> dec.pending, buffer |-> dr.buffer, out |-> dr.out, exc |-> dr.exc]

(***************************************************************************)
(* stream_openai_compatible: the loop body for one non-empty chunk         *)
(***************************************************************************)
DATA_PREFIX == <<"d", "a", "t", "a", ":", SP>>
DONE_SENTINEL == <<"[", "D", "O", "N", "E", "]">>

\* buffer.find(b"\n") + 1: the index of the first newline, 0 when there is none
IndexOfNL(s) ==
  LET at == {i \in 1 .. Len(s) : s[i] = NL}
  IN  IF at = {} THEN 0 ELSE CHOOSE i \in at : \A j \in at : i <= j

\* mutant: the [DONE] test left out, so the sentinel is one more line that is no JSON
RECURSIVE OpenAIDrainPastDone(_, _)
OpenAIDrainPastDone(buf, out) ==
  LET nl == IndexOfNL(buf)
  IN  IF nl = 0 THEN [buffer |-> buf, out |-> out, end |-> ""]
      ELSE LET line == Utf8DecodeAll(SubSeq(buf, 1, nl - 1))
               rest == SubSeq(buf, nl + 1, Len(buf))
           IN  IF ~StartsWith(line, DATA_PREFIX) THEN OpenAIDrainPastDone(rest, out)
               ELSE LET data_str == Strip(SubSeq(line, Len(DATA_PREFIX) + 1, Len(line)))
                        r == RawDecode(data_str)
                    IN  IF ~r.ok THEN OpenAIDrainPastDone(rest, out)
                        ELSE LET x == OpenAIExtract(r.v)
                             IN  IF x.exc
                                   THEN [buffer |-> rest, out |-> out, end |-> "exc"]
                                 ELSE OpenAIDrainPastDone(rest,
                                        IF x.has THEN Append(out, x.text) ELSE out)

\* mutant: no `except json.JSONDecodeError` around raw_decode, so a line that
\* is no JSON raises into `except Exception`
RECURSIVE OpenAIDrainNoCatch(_, _)
OpenAIDrainNoCatch(buf, out) ==
  LET nl == IndexOfNL(buf)
  IN  IF nl = 0 THEN [buffer |-> buf, out |-> out, end |-> ""]
      ELSE LET line == Utf8DecodeAll(SubSeq(buf, 1, nl - 1))
               rest == SubSeq(buf, nl + 1, Len(buf))
           IN  IF ~StartsWith(line, DATA_PREFIX) THEN OpenAIDrainNoCatch(rest, out)
               ELSE LET data_str == Strip(SubSeq(line, Len(DATA_PREFIX) + 1, Len(line)))
                    IN  IF data_str = DONE_SENTINEL
                          THEN [buffer |-> rest, out |-> out, end |-> "done"]
                        ELSE LET r == RawDecode(data_str)
                             IN  IF ~r.ok THEN [buffer |-> rest, out |-> out, end |-> "exc"]
                                 ELSE LET x == OpenAIExtract(r.v)
                                      IN  IF x.exc
                                            THEN [buffer |-> rest, out |-> out, end |-> "exc"]
                                          ELSE OpenAIDrainNoCatch(rest,
                                                 IF x.has THEN Append(out, x.text) ELSE out)

\* while b"\n" in buffer: ...   end is "" (loop left normally), "done" ([DONE]
\* returned from the generator) or "exc" (an exception left the loop)
RECURSIVE OpenAIDrain(_, _)
OpenAIDrain(buf, out) ==
  LET nl == IndexOfNL(buf)
  IN  IF nl = 0 THEN [buffer |-> buf, out |-> out, end |-> ""]
      ELSE LET line == Utf8DecodeAll(SubSeq(buf, 1, nl - 1))
               rest == SubSeq(buf, nl + 1, Len(buf))
           IN  IF ~StartsWith(line, DATA_PREFIX) THEN OpenAIDrain(rest, out)
               ELSE LET data_str == Strip(SubSeq(line, Len(DATA_PREFIX) + 1, Len(line)))
                    IN  IF data_str = DONE_SENTINEL
                          THEN [buffer |-> rest, out |-> out, end |-> "done"]
                        ELSE LET r == RawDecode(data_str)
                             IN  IF ~r.ok THEN OpenAIDrain(rest, out)
                                 ELSE LET x == OpenAIExtract(r.v)
                                      IN  IF x.exc
                                            THEN [buffer |-> rest, out |-> out, end |-> "exc"]
                                          ELSE OpenAIDrain(rest,
                                                 IF x.has THEN Append(out, x.text) ELSE out)

\* one iteration of `while b"\n" in buffer:` on a buffer with a newline: exit
\* is TRUE when the iteration leaves the loop ([DONE] returns, or an exception
\* of the extraction), buffer is the buffer it leaves behind
OpenAIIteration(buf) ==
  LET nl       == IndexOfNL(buf)
      line     == Utf8DecodeAll(SubSeq(buf, 1, nl - 1))
      rest     == SubSeq(buf, nl + 1, Len(buf))
      data_str == Strip(SubSeq(line, Len(DATA_PREFIX) + 1, Len(line)))
      r        == RawDecode(data_str)
  IN  IF ~StartsWith(line, DATA_PREFIX) THEN [exit |-> FALSE, buffer |-> rest]
      ELSE IF data_str = DONE_SENTINEL THEN [exit |-> TRUE, buffer |-> rest]
      ELSE IF ~r.ok THEN [exit |-> FALSE, buffer |-> rest]
      ELSE [exit |-> OpenAIExtract(r.v).exc, buffer |-> rest]

\* mutant: `if b"\n" in buffer` instead of `while`, one line for each chunk
OpenAIFeedOneLine(buf, chunk) ==
  LET all == buf \o chunk
      nl  == IndexOfNL(all)
  IN  IF nl = 0 THEN [buffer |-> all, out |-> <<>>, end |-> ""]
      ELSE [OpenAIDrain(SubSeq(all, 1, nl), <<>>) EXCEPT !.buffer = SubSeq(all, nl + 1, Len(all))]

\* mutant: each chunk is split into lines by itself, and the line a chunk
\* boundary cuts is taken as two
OpenAIFeedLinesPerChunk(buf, chunk) ==
  IF buf = <<>> THEN OpenAIDrain(chunk, <<>>) ELSE OpenAIDrain(buf \o <<NL>> \o chunk, <<>>)

\* one iteration of `for chunk in chunk_gen` with a non-empty chunk
OpenAIFeed(buf, chunk) == OpenAIDrain(buf \o chunk, <<>>)

(***************************************************************************)
(* Upstream bodies                                                         *)
(***************************************************************************)
Quoted(text) == <<QUOTE>> \o text \o <<QUOTE>>
Member(key, val) == <<"{">> \o Quoted(<<key>>) \o <<":">> \o val \o <<"}">>
ListOf(val) == <<"[">> \o val \o <<"]">>

\* {"candidates":[{"content":{"parts":[{"text":<text>}]}}]}
GeminiDoc(text) ==
  Member("c", ListOf(Member("n", Member("p", ListOf(Member("t", Quoted(text)))))))

\* data: {"choices":[{"delta":{"content":<text>}}]}\n
OpenAILine(text) ==
  DATA_PREFIX \o Member("h", ListOf(Member("d", Member("n", Quoted(text))))) \o <<NL>>

TextHe == <<"H", "e">>
TextLlo == <<"l", "l", "o">>
TextHi == <<"H", "i">>
TextWide == <<LeadByte, ContByte>>
NullLiteral == <<"n", "u", "l", "l">>

\* what a Gemini upstream may send in one flush: two documents, whitespace,
\* a document without text, a malformed document
GeminiUnits ==
  { GeminiDoc(TextHe),
    GeminiDoc(TextLlo),
    <<SP, NL>>,
    <<"{", "}">>,
    <<"{", "x", "}">> }

\* bodies for particular cases: a multi-byte character, a list of documents,
\* scalars and objects of the wrong shape before a document, an unfinished
\* document and an unfinished character at the end
GeminiCases ==
  { GeminiDoc(TextWide) \o GeminiDoc(TextHe),
    ListOf(GeminiDoc(<<"a">>) \o <<",", SP>> \o GeminiDoc(<<"b">>)) \o GeminiDoc(TextHe),
    ListOf(<<"{", "}", ",">> \o GeminiDoc(<<"a">>) \o <<",", "1">>) \o GeminiDoc(TextHe),
    <<"1", "0">> \o GeminiDoc(TextHe),
    NullLiteral \o GeminiDoc(TextHe),
    Member("c", NullLiteral) \o GeminiDoc(TextHe),
    Member("c", <<"[", "]">>) \o GeminiDoc(TextHe),
    Member("c", ListOf(Member("n", NullLiteral))) \o GeminiDoc(TextHe),
    Member("c", ListOf(Member("n", Member("p", ListOf(Member("t", NullLiteral)))))) \o GeminiDoc(TextHe),
    <<ContByte>> \o GeminiDoc(TextHe),
    GeminiDoc(TextHe) \o SubSeq(GeminiDoc(TextLlo), 1, Len(GeminiDoc(TextLlo)) - 1),
    GeminiDoc(TextHe) \o <<SP, LeadByte>> }

DoneLine == DATA_PREFIX \o DONE_SENTINEL \o <<NL>>

\* what an OpenAI-compatible upstream may send in one flush: a line with text,
\* the sentinel, a blank line, a comment line, a data line that is not JSON
OpenAIUnits ==
  { OpenAILine(TextHi),
    DoneLine,
    <<NL>>,
    <<":", SP, "k", NL>>,
    DATA_PREFIX \o <<"k", NL>> }

\* bodies for particular cases: a multi-byte character, data lines without the
\* text path or of the wrong shape before a line with text, a final line
\* without its newline
OpenAICases ==
  { OpenAILine(TextWide) \o OpenAILine(TextHi),
    DATA_PREFIX \o <<"{", "}", NL>> \o OpenAILine(TextHi),
    DATA_PREFIX \o Member("h", <<"[", "]">>) \o <<NL>> \o OpenAILine(TextHi),
    DATA_PREFIX \o Member("h", ListOf(Member("d", NullLiteral))) \o <<NL>> \o OpenAILine(TextHi),
    DATA_PREFIX \o Member("h", ListOf(Member("d", Member("n", NullLiteral)))) \o <<NL>> \o OpenAILine(TextHi),
    DATA_PREFIX \o <<"1", NL>> \o OpenAILine(TextHi),
    <<SP>> \o DoneLine \o OpenAILine(TextHi),
    OpenAILine(TextHi) \o <<NL>> \o DoneLine \o <<NL>> \o OpenAILine(<<"x">>),
    OpenAILine(TextHi) \o SubSeq(OpenAILine(<<"x">>), 1, Len(OpenAILine(<<"x">>)) - 1) }

RECURSIVE Bodies(_, _)
Bodies(units, n) ==
  IF n = 0 THEN {<<>>}
  ELSE LET shorter == Bodies(units, n - 1)
       IN  shorter \cup {b \o u : b \in shorter, u \in units}

(***************************************************************************)
(* _load_config: provider, credential and secret                           *)
(***************************************************************************)
PRESET_PROVIDERS == {"openai", "openrouter", "ollama", "localai", "lmstudio",
                     "gemini", "azure", "huggingface"}

\* hashlib.sha256(x).hexdigest(): collision-free, and never contains '.'
Sha256Hex(x) ==
  <<"sha256(">> \o [i \in 1 .. Len(x) |-> IF x[i] = "." THEN "%2E" ELSE x[i]] \o <<")">>

\* a string value, beside JSON null and Python None
Str(s) == [t |-> "str", s |-> s]
None == [t |-> "none"]

\* os.getenv(name): a variable that is not set, or its value
Unset == [set |-> FALSE]
Given(v) == [set |-> TRUE, val |-> v]

\* os.getenv(name, default)
GetEnv(v, default) == IF v.set THEN v.val ELSE default

\* URLs and model names are sequences of tokens; the tokens of a URL are its
\* scheme, the labels of its host, its port and the parts of its path
HTTP == "http://"
HTTPS == "https://"
MODEL_PLACEHOLDER == "{model}"
CHAT_PATH == "/v1/chat/completions"

PROVIDER_PRESETS ==
  [p \in PRESET_PROVIDERS |->
    CASE p = "openai" ->
           [url |-> Str(<<HTTPS, "api.", "openai", ".com", CHAT_PATH>>),
            model |-> <<"gpt-4o-mini">>]
      [] p = "openrouter" ->
           [url |-> Str(<<HTTPS, "openrouter.ai", "/api", CHAT_PATH>>),
            model |-> <<"google/gemma-3-27b-it:free">>]
      [] p = "ollama" ->
           [url |-> Str(<<HTTP, "localhost", ":11434", CHAT_PATH>>),
            model |-> <<"llama3.2">>]
      [] p = "localai" ->
           [url |-> Str(<<HTTP, "localhost", ":8080", CHAT_PATH>>),
            model |-> <<"gpt-4">>]
      [] p = "lmstudio" ->
           [url |-> Str(<<HTTP, "localhost", ":1234", CHAT_PATH>>),
            model |-> <<"local-model">>]
      [] p = "gemini" ->
           [url |-> Str(<<HTTPS, "generativelanguage.googleapis.com", "/v1beta/models/",
                          MODEL_PLACEHOLDER, ":streamGenerateContent">>),
            model |-> <<"gemma-3-27b-it">>]
      [] p = "azure" ->
           [url |-> None, model |-> <<"azure-deployment">>]
      [] p = "huggingface" ->
           [url |-> Str(<<HTTPS, "api-inference.", "huggingface.co", "/models/",
                          MODEL_PLACEHOLDER, CHAT_PATH>>),
            model |-> <<"meta-llama/Meta-Llama-3-8B-Instruct">>]]

\* str.lower(), on the tokens used here
Lower(s) ==
  [i \in 1 .. Len(s) |-> IF s[i] = "OPENAI" THEN "openai"
                         ELSE IF s[i] = "TRUE" THEN "true" ELSE s[i]]

\* `pat in s`
Contains(s, pat) ==
  \E i \in 1 .. Len(s) - Len(pat) + 1 : SubSeq(s, i, i + Len(pat) - 1) = pat

\* the provider taken from LLM_URL when LLM_PROVIDER is not given
InferProvider(raw_url) ==
  LET url_lower == Lower(raw_url)
  IN  IF Contains(url_lower, <<"openai", ".com">>) THEN "openai"
      ELSE IF Contains(url_lower, <<"openrouter.ai">>) THEN "openrouter"
      ELSE IF Contains(url_lower, <<":11434">>) THEN "ollama"
      ELSE IF Contains(url_lower, <<"generativelanguage.googleapis.com">>) THEN "gemini"
      ELSE IF Contains(url_lower, <<"openai", ".azure.com">>)
              \/ Contains(url_lower, <<".azure.com">>) THEN "azure"
      ELSE IF Contains(url_lower, <<"huggingface.co">>) THEN "huggingface"
      ELSE "openai"

\* str.format(model=model) on a preset URL
RECURSIVE FormatModel(_, _)
FormatModel(url, model) ==
  IF url = <<>> THEN <<>>
  ELSE (IF Head(url) = MODEL_PLACEHOLDER THEN model ELSE <<Head(url)>>)
       \o FormatModel(Tail(url), model)

\* int(s) for the values of LLM_MAX_TOKENS used here: digits, or ValueError
ParseInt(s) ==
  IF s # <<>> /\ \A i \in 1 .. Len(s) : IsDigit(s[i])
    THEN [err |-> FALSE, val |-> DecimalValue(s, 1, 0)]
    ELSE [err |-> TRUE, val |-> 0]

DEFAULT_TABS == {"general", "science", "it", "news"}
DEFAULT_DEEP_COUNT == 5
DEFAULT_SHALLOW_COUNT == 15

\* set(t.strip() for t in s.split(',')), for s with one token a name, a comma
\* or a blank
RECURSIVE SplitTabs(_, _)
SplitTabs(s, name) ==
  IF s = <<>> THEN {Strip(name)}
  ELSE IF Head(s) = "," THEN {Strip(name)} \cup SplitTabs(Tail(s), <<>>)
  ELSE SplitTabs(Tail(s), Append(name, Head(s)))

\* the tab names of a setting, a name of one token being that token
AllowedTabs(s) == {IF Len(n) = 1 THEN n[1] ELSE "" : n \in SplitTabs(s, <<>>)}

\* max(0, int(os.getenv(name, default))) with ValueError giving the default:
\* an unset setting is the default, digits are their value, digits after a
\* minus sign give 0, anything else (the empty string too) is the default
ContextCount(s, default) ==
  IF ~s.set THEN default
  ELSE IF ~ParseInt(s.val).err THEN ParseInt(s.val).val
  ELSE IF s.val # <<>> /\ Head(s.val) = "-" /\ ~ParseInt(Tail(s.val)).err THEN 0
  ELSE default

DEFAULT_MAX_TOKENS == 500
\* the default temperature 0.2, in tenths
DEFAULT_TEMPERATURE == 2

\* the log entries of _load_config
UNKNOWN_PROVIDER == [level |-> "warning", about |-> "unknown provider"]
CUSTOM_URL == [level |-> "info", about |-> "custom URL"]

\* the environment with nothing set
NoEnv ==
  [LLM_PROVIDER |-> "", LLM_KEY |-> <<>>, SXNG_LLM_SECRET |-> <<>>,
   LLM_URL |-> <<>>, LLM_MODEL |-> Unset, LLM_MAX_TOKENS |-> <<>>,
   LLM_TEMPERATURE |-> <<>>, LLM_INTERACTIVE |-> Unset,
   LLM_TABS |-> Unset, LLM_CONTEXT_DEEP_COUNT |-> Unset,
   LLM_CONTEXT_SHALLOW_COUNT |-> Unset,
   active |-> TRUE]

\* mutant: an unknown provider is taken for the provider the plugin began with
ResolveProviderFallsBackToGemini(raw_provider) ==
  IF raw_provider \in PRESET_PROVIDERS THEN raw_provider ELSE "gemini"

\* self.provider = raw_provider if raw_provider in PROVIDER_PRESETS else 'openai'
ResolveProvider(raw_provider) ==
  IF raw_provider \in PRESET_PROVIDERS THEN raw_provider ELSE "openai"

\* mutant: the preset URL wins where there is one
ResolveEndpointPresetFirst(given_url, preset_url) ==
  IF preset_url # None THEN preset_url ELSE Str(given_url)

\* os.getenv('LLM_URL', '').strip() or preset_url
ResolveEndpoint(given_url, preset_url) ==
  IF given_url # <<>> THEN Str(given_url) ELSE preset_url

\* the attributes _load_config leaves on the plugin.  env holds LLM_PROVIDER
\* (lower case and stripped), LLM_KEY, SXNG_LLM_SECRET, LLM_URL,
\* LLM_MAX_TOKENS, LLM_TEMPERATURE (<<>> when unset or empty), LLM_MODEL and
\* LLM_INTERACTIVE, LLM_TABS, the two context counts, and under `active` the
\* setting plg_cfg.active that Plugin.__init__ copies to the plugin before
\* _load_config runs.  has_secret tells whether the attributes assigned after
\* the early return (secret, max_tokens, temperature, endpoint_url) exist;
\* error names the exception _load_config raises, "" when it returns.
LoadConfig(env) ==
  LET interactive  == Strip(Lower(GetEnv(env.LLM_INTERACTIVE, <<"true">>)))
                        \in {<<"true">>, <<"1">>, <<"yes">>, <<"on">>}
      given_url    == Strip(env.LLM_URL)
      inferred     == env.LLM_PROVIDER = "" /\ given_url # <<>>
      raw_provider == IF inferred THEN InferProvider(given_url) ELSE env.LLM_PROVIDER
      log0         == IF inferred /\ raw_provider = "openai"
                         /\ ~Contains(Lower(given_url), <<"openai", ".com">>)
                        THEN <<CUSTOM_URL>> ELSE <<>>
  IN
  IF raw_provider = ""
    THEN [provider |-> "", is_gemini |-> FALSE, api_key |-> <<>>,
          has_secret |-> FALSE, secret |-> <<>>, interactive |-> interactive,
          model |-> <<>>, max_tokens |-> 0, temperature |-> [nan |-> FALSE, tenths |-> 0],
          endpoint_url |-> None, log |-> log0, error |-> "",
          active |-> env.active, allowed_tabs |-> {},
          context_deep_count |-> 0, context_shallow_count |-> 0]
    ELSE LET provider == ResolveProvider(raw_provider)
             log      == log0 \o (IF raw_provider \in PRESET_PROVIDERS THEN <<>>
                                  ELSE <<UNKNOWN_PROVIDER>>)
             preset   == PROVIDER_PRESETS[provider]
             api_key  == IF env.LLM_KEY = <<>> /\ provider \in {"ollama", "localai", "lmstudio"}
                           THEN <<"n", "o", "n", "e">> ELSE Strip(env.LLM_KEY)
             model    == Strip(GetEnv(env.LLM_MODEL, preset.model))
             tokens   == ParseInt(env.LLM_MAX_TOKENS)
             temp     == ParseFloat(env.LLM_TEMPERATURE)
             preset_url == IF preset.url # None /\ Contains(preset.url.s, <<MODEL_PLACEHOLDER>>)
                             THEN Str(FormatModel(preset.url.s, model)) ELSE preset.url
             raw_url  == ResolveEndpoint(given_url, preset_url)
             failed   == raw_url = None
             full     == IF failed THEN None
                         ELSE IF StartsWith(raw_url.s, <<HTTP>>) \/ StartsWith(raw_url.s, <<HTTPS>>)
                           THEN raw_url ELSE Str(<<HTTPS>> \o raw_url.s)
         IN  [provider |-> provider,
              is_gemini |-> (provider = "gemini"),
              api_key |-> api_key,
              has_secret |-> ~failed,
              secret |-> IF failed THEN <<>>
                         ELSE IF api_key # <<>>
                           THEN IF env.SXNG_LLM_SECRET # <<>> THEN env.SXNG_LLM_SECRET
                                ELSE Sha256Hex(api_key)
                           ELSE env.SXNG_LLM_SECRET,
              interactive |-> interactive,
              model |-> model,
              max_tokens |-> IF tokens.err THEN DEFAULT_MAX_TOKENS ELSE tokens.val,
              temperature |-> IF temp.err THEN [nan |-> FALSE, tenths |-> DEFAULT_TEMPERATURE]
                              ELSE [nan |-> temp.nan, tenths |-> 10 * temp.val],
              endpoint_url |-> full,
              log |-> log,
              error |-> IF failed THEN "AttributeError" ELSE "",
              active |-> env.active,
              allowed_tabs |-> IF env.LLM_TABS.set THEN AllowedTabs(env.LLM_TABS.val)
                               ELSE DEFAULT_TABS,
              context_deep_count |->
                ContextCount(env.LLM_CONTEXT_DEEP_COUNT, DEFAULT_DEEP_COUNT),
              context_shallow_count |->
                ContextCount(env.LLM_CONTEXT_SHALLOW_COUNT, DEFAULT_SHALLOW_COUNT)]

(***************************************************************************)
(* handle_ai_stream: token verification and the response status            *)
(***************************************************************************)
\* token.rfind('.') + 1: the index of the last '.', 0 when there is none
LastDot(s) ==
  LET at == {i \in 1 .. Len(s) : s[i] = "."}
  IN  IF at = {} THEN 0 ELSE CHOOSE i \in at : \A j \in at : j <= i

\* token.rsplit('.', 1)
RSplitDot(s) ==
  LET d == LastDot(s)
  IN  IF d = 0 THEN <<s>>
      ELSE <<SubSeq(s, 1, d - 1), SubSeq(s, d + 1, Len(s))>>

\* data.get('tk', '')
TokenOf(data) == IF data.tk.t = "absent" THEN [t |-> "str", s |-> <<>>] ELSE data.tk

\* mutant: `except ValueError` alone
CaughtValueErrorOnly == {"ValueError"}

\* the exceptions the try block around the verification catches
CAUGHT == {"ValueError", "KeyError", "AttributeError"}

\* mutant: the expiry test written with >= instead of >
VerifyTokenExpiresEarly(self, token, clock) ==
  IF token.t # "str" THEN "AttributeError"
  ELSE LET parts == RSplitDot(token.s)
       IN  IF Len(parts) # 2 THEN "ValueError"
           ELSE IF ~self.has_secret THEN "AttributeError"
           ELSE LET ts       == parts[1]
                    sig      == parts[2]
                    expected == Sha256Hex(ts \o self.secret)
                    f        == ParseFloat(ts)
                IN  IF sig # expected THEN "abort"
                    ELSE IF f.err THEN "ValueError"
                    ELSE IF ~f.nan /\ clock - Seconds(f.val) >= Seconds(TOKEN_EXPIRY_SEC) THEN "abort"
                    ELSE "pass"

\* The body of the try block: "pass" when it falls through, "abort" when it
\* reaches abort(403), else the name of the exception it raises.  clock is
\* time.time() in ticks.
VerifyToken(self, token, clock) ==
  IF token.t # "str" THEN "AttributeError"
  ELSE LET parts == RSplitDot(token.s)
       IN  IF Len(parts) # 2 THEN "ValueError"
           ELSE IF ~self.has_secret THEN "AttributeError"
           ELSE LET ts       == parts[1]
                    sig      == parts[2]
                    expected == Sha256Hex(ts \o self.secret)
                    f        == ParseFloat(ts)
                IN  IF sig # expected THEN "abort"
                    ELSE IF f.err THEN "ValueError"
                    ELSE IF ~f.nan /\ clock - Seconds(f.val) > Seconds(TOKEN_EXPIRY_SEC) THEN "abort"
                    ELSE "pass"

\* mutant: the test of self.api_key left out
HandlerStatusNoKeyTest(self, data, clock) ==
  IF data.warmup THEN 204
  ELSE LET v == VerifyToken(self, TokenOf(data), clock)
       IN  IF v = "abort" \/ v \in CAUGHT THEN 403
           ELSE IF v # "pass" THEN 500
           ELSE 200

\* mutant: the warmup test made after the verification of the token
HandlerStatusWarmupLast(self, data, clock) ==
  LET v == VerifyToken(self, TokenOf(data), clock)
  IN  IF v = "abort" \/ v \in CAUGHT THEN 403
      ELSE IF v # "pass" THEN 500
      ELSE IF data.warmup THEN 204
      ELSE IF self.api_key = <<>> THEN 400
      ELSE 200

\* HTTP status of the response of handle_ai_stream (500: unhandled exception)
HandlerStatus(self, data, clock) ==
  IF data.warmup THEN 204
  ELSE LET v == VerifyToken(self, TokenOf(data), clock)
       IN  IF v = "abort" \/ v \in CAUGHT THEN 403
           ELSE IF v # "pass" THEN 500
           ELSE IF self.api_key = <<>> THEN 400
           ELSE 200

\* the body of the response: the text given to Response, "stream" for the
\* generator, "error page" for what abort or an unhandled exception sends
HandlerBody(self, data, clock) ==
  LET s == HandlerStatus(self, data, clock)
  IN  IF s = 204 THEN ""
      ELSE IF s = 400 THEN "Missing API key or query"
      ELSE IF s = 200 THEN "stream"
      ELSE "error page"

(***************************************************************************)
(* handle_ai_stream: the prompt and the request sent upstream              *)
(***************************************************************************)
\* Texts are sequences of tokens: a fixed text of the source is one token
\* (or a few, where its parts matter), a text of the caller one token a
\* character.

\* data.get(key, default); the body may lack the key
FieldOf(data, key, default) ==
  IF key \in DOMAIN data /\ data[key].t # "absent" THEN data[key] ELSE default

\* `x or ''` for a string, null or missing x
OrEmpty(v) == IF v.t = "str" THEN v.s ELSE <<>>

PREV_ANSWER_WINDOW == 4000

\* s[-n:]
LastChars(s, n) == IF Len(s) > n THEN SubSeq(s, Len(s) - n + 1, Len(s)) ELSE s

QueryOf(data) == FieldOf(data, "q", Str(<<>>)).s
LangOf(data) == FieldOf(data, "lang", Str(<<"all">>)).s
ContextOf(data) == FieldOf(data, "context", Str(<<>>)).s
PrevAnswerOf(data) == LastChars(OrEmpty(FieldOf(data, "prev_answer", None)), PREV_ANSWER_WINDOW)

CONTINUE_QUERY == <<"C", "o", "n", "t", "i", "n", "u", "e">>

TASK_CONTINUE == "CONTINUE: Pick up exactly where previous answer stopped. No repetition. Seamless flow."
TASK_FOLLOW_UP == "FOLLOW-UP: Address the new question using prior context. Prioritize the new query."
TASK_ANSWER_FIRST == "ANSWER FIRST: Lead with the direct answer. No preamble, no context-setting."

\* mutant: the prior answer is looked at before the query
TaskDirectivePriorFirst(q, prev_answer) ==
  IF prev_answer # <<>> THEN TASK_FOLLOW_UP
  ELSE IF q = CONTINUE_QUERY THEN TASK_CONTINUE
  ELSE TASK_ANSWER_FIRST

\* the choice of `task`
TaskDirective(q, prev_answer) ==
  IF q = CONTINUE_QUERY THEN TASK_CONTINUE
  ELSE IF prev_answer # <<>> THEN TASK_FOLLOW_UP
  ELSE TASK_ANSWER_FIRST

\* CORE_RULES; target_words = int(self.max_tokens * 0.2)
CoreRules(cfg) ==
  << <<"DENSITY 4/5: Expert-briefing level. No filler, no transitions. Every sentence = new information.">>,
     <<"BREVITY: ">> \o DecimalDigits(cfg.max_tokens \div 5) \o <<" words max. Complete, not verbose.">>,
     <<"CITATIONS: Cite format is [n] for facts from grounding sources">>,
     <<"NO HEDGE: State answers confidently. Note uncertainty only if critical.">> >>

GROUNDING_SOURCES == "GROUNDING: KNOWLEDGE GRAPH > DEEP > SHALLOW."
GROUNDING_NONE == "GROUNDING: No sources available. Use knowledge and note 'based on general knowledge'."
HISTORY_RULE == "HISTORY: Refer to prior exchange for context. Ideally, do not repeat any claims."

\* mutant: no history rule for the query "Continue"
InstructionsNoHistoryOnContinue(cfg, data) ==
  << <<TaskDirective(QueryOf(data), PrevAnswerOf(data))>> >>
  \o CoreRules(cfg)
  \o << <<IF ContextOf(data) # <<>> THEN GROUNDING_SOURCES ELSE GROUNDING_NONE>> >>
  \o (IF PrevAnswerOf(data) # <<>> /\ QueryOf(data) # CONTINUE_QUERY
        THEN << <<HISTORY_RULE>> >> ELSE <<>>)

\* the list `instructions`, each rule a text
Instructions(cfg, data) ==
  << <<TaskDirective(QueryOf(data), PrevAnswerOf(data))>> >>
  \o CoreRules(cfg)
  \o << <<IF ContextOf(data) # <<>> THEN GROUNDING_SOURCES ELSE GROUNDING_NONE>> >>
  \o (IF PrevAnswerOf(data) # <<>> THEN << <<HISTORY_RULE>> >> ELSE <<>>)

\* "\n".join(f"{i+1}. {r}" for i, r in enumerate(rules)), from rule i on
RECURSIVE Numbered(_, _)
Numbered(rules, i) ==
  IF i > Len(rules) THEN <<>>
  ELSE (IF i > 1 THEN <<NL>> ELSE <<>>)
       \o DecimalDigits(i) \o <<". ">> \o rules[i] \o Numbered(rules, i + 1)

INSTRUCTIONS_OPEN == "<instructions>"
INSTRUCTIONS_CLOSE == "</instructions>"
ANSWER_OPEN == <<"<", "answer", ">">>
STOP_SEQUENCE == <<"<", "/", "answer", ">">>
NONE_MARKER == "None."

\* time.strftime("%Y-%m-%d"): the day the clock reading falls on
Today(clock) == <<"day ">> \o DecimalDigits(clock \div Seconds(86400))

\* the f-string `prompt`
Prompt(cfg, data, clock) ==
  LET lang == LangOf(data)
      lang_instruction == IF lang \notin {<<"all">>, <<"auto">>}
                            THEN <<" Respond in ">> \o lang \o <<".">> ELSE <<>>
      context_text == ContextOf(data)
      prev_answer  == PrevAnswerOf(data)
  IN  <<"<system>",
        "You are a search synthesis engine. Direct, grounded, citation-accurate. Today is ">>
      \o Today(clock) \o <<".">> \o lang_instruction
      \o <<"</system>", NL, NL, "<sources>", NL>>
      \o (IF context_text # <<>> THEN context_text ELSE <<NONE_MARKER>>)
      \o <<NL, "</sources>", NL, NL, "<history>", NL>>
      \o (IF prev_answer # <<>> THEN prev_answer ELSE <<NONE_MARKER>>)
      \o <<NL, "</history>", NL, NL, "<query>">> \o QueryOf(data)
      \o <<"</query>", NL, NL, INSTRUCTIONS_OPEN, NL>>
      \o Numbered(Instructions(cfg, data), 1)
      \o <<NL, INSTRUCTIONS_CLOSE, NL, NL>> \o ANSWER_OPEN

\* mutant: the stop sequence is the open tag
GeminiCallStopsAtOpenTag(cfg, data, clock) ==
  [method |-> "POST",
   url |-> cfg.endpoint_url.s
           \o (IF Contains(cfg.endpoint_url.s, <<"?">>) THEN <<"&key=">> ELSE <<"?key=">>)
           \o cfg.api_key,
   json |-> [contents |-> << [parts |-> << [text |-> Prompt(cfg, data, clock)] >>] >>,
             generationConfig |-> [maxOutputTokens |-> cfg.max_tokens,
                                   temperature |-> cfg.temperature,
                                   stopSequences |-> <<ANSWER_OPEN>>]],
   headers |-> { <<"Content-Type", <<"application/json">> >> },
   timeout |-> 60]

\* the arguments of network.stream in stream_gemini
GeminiCall(cfg, data, clock) ==
  [method |-> "POST",
   url |-> cfg.endpoint_url.s
           \o (IF Contains(cfg.endpoint_url.s, <<"?">>) THEN <<"&key=">> ELSE <<"?key=">>)
           \o cfg.api_key,
   json |-> [contents |-> << [parts |-> << [text |-> Prompt(cfg, data, clock)] >>] >>,
             generationConfig |-> [maxOutputTokens |-> cfg.max_tokens,
                                   temperature |-> cfg.temperature,
                                   stopSequences |-> <<STOP_SEQUENCE>>]],
   headers |-> { <<"Content-Type", <<"application/json">> >> },
   timeout |-> 60]

\* mutant: the key is sent in both headers
OpenAIHeadersBoth(cfg) ==
  { <<"Content-Type", <<"application/json">> >>,
    <<"HTTP-Referer", <<"https://github.com/searxng/searxng">> >>,
    <<"X-Title", <<"SearXNG">> >>,
    <<"api-key", cfg.api_key>>,
    <<"Authorization", <<"Bearer ">> \o cfg.api_key>> }

\* the dict `headers` of stream_openai_compatible
OpenAIHeaders(cfg) ==
  { <<"Content-Type", <<"application/json">> >>,
    <<"HTTP-Referer", <<"https://github.com/searxng/searxng">> >>,
    <<"X-Title", <<"SearXNG">> >>,
    IF cfg.provider = "azure" THEN <<"api-key", cfg.api_key>>
    ELSE <<"Authorization", <<"Bearer ">> \o cfg.api_key>> }

\* the arguments of network.stream in stream_openai_compatible
OpenAICall(cfg, data, clock) ==
  [method |-> "POST",
   url |-> cfg.endpoint_url.s,
   json |-> [model |-> cfg.model,
             messages |-> << [role |-> "user", content |-> Prompt(cfg, data, clock)] >>,
             stream |-> TRUE,
             max_tokens |-> cfg.max_tokens,
             temperature |-> cfg.temperature,
             stop |-> <<STOP_SEQUENCE>>],
   headers |-> OpenAIHeaders(cfg),
   timeout |-> 60]

\* generator = stream_gemini if self.is_gemini else stream_openai_compatible
UpstreamCall(cfg, data, clock) ==
  IF cfg.is_gemini THEN GeminiCall(cfg, data, clock) ELSE OpenAICall(cfg, data, clock)

\* no call of network.stream yet
NoCall == [method |-> "none"]

(***************************************************************************)
(* post_search: the page fragment                                          *)
(***************************************************************************)
STREAM_BOX == "<article id=\"sxng-stream-box\" class=\"answer\" style=\"display:none; margin: 1rem 0;\">"
INTERACTIVE_CSS == <<".sxng-footer { ... } .sxng-btn { ... } .sxng-input { ... }">>
FOOTER == "<div id=\"sxng-footer\" class=\"sxng-footer\" style=\"display:none;\">"
INTERACTIVE_HTML ==
  <<FOOTER, "<button id=\"btn-copy\">", "<button id=\"btn-regen\">",
    "<form id=\"sxng-action-form\">", "</div>">>
INTERACTIVE_JS == <<"const footer = document.getElementById('sxng-footer');", "..." >>
STREAM_FN_SIG == "async function startStream(overrideQ = null, prevAnswer = null, auxContext = null)"

\* json.dumps of a string: in quotes, each quote of the text behind a backslash
RECURSIVE JsonEscape(_)
JsonEscape(s) ==
  IF s = <<>> THEN <<>>
  ELSE (IF Head(s) = QUOTE THEN <<"\\", QUOTE>> ELSE <<Head(s)>>) \o JsonEscape(Tail(s))

JsonDumps(s) == <<QUOTE>> \o JsonEscape(s) \o <<QUOTE>>

\* mutant: the footer is in the page in both modes
InteractiveHtmlAlways(cfg) == INTERACTIVE_HTML

\* interactive_html = INTERACTIVE_HTML if is_interactive else ''
InteractiveHtml(cfg) == IF cfg.interactive THEN INTERACTIVE_HTML ELSE <<>>

\* html_payload for the query q and the token tk, as a sequence of tokens;
\* the context, the URLs and the language are left out of the script
HtmlPayload(cfg, q, tk) ==
  <<STREAM_BOX, "<style>", "@keyframes ... .sxng-chunk { ... }">>
  \o (IF cfg.interactive THEN INTERACTIVE_CSS ELSE <<>>)
  \o <<"</style>", "<p id=\"sxng-stream-data\"><span class=\"sxng-cursor\"></span></p>">>
  \o InteractiveHtml(cfg)
  \o <<"<script>", "(async () => {", "const is_interactive = ",
       IF cfg.interactive THEN "true" ELSE "false", ";", "const q_init = ">>
  \o JsonDumps(q)
  \o <<";", "const tk_init = ", QUOTE>> \o tk.s \o <<QUOTE, ";",
       "const box = document.getElementById('sxng-stream-box');", "let isStreaming = false;">>
  \o (IF cfg.interactive THEN INTERACTIVE_JS ELSE <<>>)
  \o <<STREAM_FN_SIG, "{", "const finalQ = ",
       IF cfg.interactive THEN "overrideQ || q_init" ELSE "q_init", ";",
       "const bodyObj = { q: finalQ, lang: lang_init, context: ctx, tk: tk_init">>
  \o (IF cfg.interactive THEN <<", ", "prev_answer: prevAnswer">> ELSE <<>>)
  \o <<" };", "const res = await fetch('/ai-stream', ...", "...">>
  \o (IF cfg.interactive THEN <<"footer.style.display = 'flex';">> ELSE <<>>)
  \o <<"}", "fetch('/ai-stream', { body: JSON.stringify({warmup: true}) })",
       "if (!restored) startStream();", "})();", "</script>", "</article>">>

(***************************************************************************)
(* The context given to the model and the URL list given to the client     *)
(*                                                                         *)
(* A result is a record [url, title, content, publishedDate].  A URL is    *)
(* written <<scheme, host tokens..., path>>; url is Str(u), Null (the key  *)
(* holds None) or Absent (no such key).  The runs have no infobox and no   *)
(* instant answer, so the KNOWLEDGE GRAPH part of a context is empty.      *)
(***************************************************************************)
Absent == [t |-> "absent"]
Null == [t |-> "null"]
WWW == "www."
\* what an f-string prints for the bytes b''
EMPTY_BYTES == "b''"

DEEP_CONTENT_CHARS == 800
SHALLOW_TITLE_CHARS == 60
AUX_CONTENT_CHARS == 600

MinOf(a, b) == IF a < b THEN a ELSE b

\* s[:n]
FirstChars(s, n) == IF Len(s) > n THEN SubSeq(s, 1, n) ELSE s

\* s.replace('\n', ' ').strip()
Flat(s) == Strip([i \in 1 .. Len(s) |-> IF s[i] = NL THEN SP ELSE s[i]])

\* s.replace('www.', '')
StripWww(s) == SelectSeq(s, LAMBDA c : c # WWW)

\* r.get('url', '')
UrlOrEmpty(r) == IF r.url = Absent THEN Str(<<>>) ELSE r.url

\* urlparse(url).netloc: the host of a string, b'' for None
Netloc(url) ==
  IF url = Null THEN [bytes |-> TRUE, s |-> <<>>]
  ELSE IF Len(url.s) < 3 THEN [bytes |-> FALSE, s |-> <<>>]
  ELSE [bytes |-> FALSE, s |-> SubSeq(url.s, 2, Len(url.s) - 1)]

\* '\n'.join(lines)
RECURSIVE JoinLines(_)
JoinLines(lines) ==
  IF lines = <<>> THEN <<>>
  ELSE IF Len(lines) = 1 THEN lines[1]
  ELSE lines[1] \o <<NL>> \o JoinLines(Tail(lines))

\* "\n\n".join(parts)
RECURSIVE JoinParts(_)
JoinParts(parts) ==
  IF parts = <<>> THEN <<>>
  ELSE IF Len(parts) = 1 THEN parts[1]
  ELSE parts[1] \o <<NL, NL>> \o JoinParts(Tail(parts))

\* f" ({date})" if date else ""
DateStr(r) == IF r.publishedDate # <<>> THEN <<" (">> \o r.publishedDate \o <<")">> ELSE <<>>

\* f"[{n}] ", the label of a source line
Label(n) == <<"[">> \o DecimalDigits(n) \o <<"]", SP>>

\* the line of deep source number i (from 0):
\* f"[{i+1}] {domain}{date_str}: {title}: {content}"
DeepLine(i, r) ==
  LET loc == Netloc(UrlOrEmpty(r))
  IN  Label(i + 1) \o (IF loc.bytes THEN <<EMPTY_BYTES>> ELSE loc.s) \o DateStr(r)
        \o <<":", SP>> \o Flat(r.title)
        \o <<":", SP>> \o FirstChars(Flat(r.content), DEEP_CONTENT_CHARS)

\* the line of shallow source number i (from 0):
\* f"[{i+1+start_idx}] {domain}: {title}"
ShallowLine(i, start_idx, r) ==
  Label(i + 1 + start_idx) \o StripWww(Netloc(UrlOrEmpty(r)).s)
    \o <<":", SP>> \o FirstChars(Flat(r.title), SHALLOW_TITLE_CHARS)

\* the slices raw_results[:deep] and raw_results[deep:deep + shallow]
DeepOf(cfg, raw_results) ==
  SubSeq(raw_results, 1, MinOf(cfg.context_deep_count, Len(raw_results)))

ShallowOf(cfg, raw_results) ==
  SubSeq(raw_results, cfg.context_deep_count + 1,
         MinOf(cfg.context_deep_count + cfg.context_shallow_count, Len(raw_results)))

\* mutant: the shallow tier numbers its lines from 1
AssembleContextShallowFromOne(cfg, raw_results) ==
  LET deep    == DeepOf(cfg, raw_results)
      shallow == ShallowOf(cfg, raw_results)
      deep_lines    == [i \in 1 .. Len(deep) |-> DeepLine(i - 1, deep[i])]
      shallow_lines == [i \in 1 .. Len(shallow) |-> ShallowLine(i - 1, 0, shallow[i])]
  IN  IF cfg.context_shallow_count > 0 /\ \E i \in 1 .. Len(shallow) : shallow[i].url = Null
        THEN [exc |-> TRUE, text |-> <<>>]
        ELSE [exc |-> FALSE,
              text |-> JoinParts(
                (IF deep_lines # <<>>
                   THEN << <<"DEEP SOURCES:", NL>> \o JoinLines(deep_lines) >> ELSE <<>>)
                \o (IF cfg.context_shallow_count > 0 /\ shallow_lines # <<>>
                      THEN << <<"SHALLOW SOURCES (headlines):", NL>> \o JoinLines(shallow_lines) >>
                      ELSE <<>>))]

\* _assemble_context: the text, or exc when it raises (bytes.replace with str
\* arguments, for a shallow source whose url is None)
AssembleContext(cfg, raw_results) ==
  LET deep      == DeepOf(cfg, raw_results)
      shallow   == ShallowOf(cfg, raw_results)
      start_idx == cfg.context_deep_count
      deep_lines    == [i \in 1 .. Len(deep) |-> DeepLine(i - 1, deep[i])]
      shallow_lines == [i \in 1 .. Len(shallow) |-> ShallowLine(i - 1, start_idx, shallow[i])]
  IN  IF cfg.context_shallow_count > 0 /\ \E i \in 1 .. Len(shallow) : shallow[i].url = Null
        THEN [exc |-> TRUE, text |-> <<>>]
        ELSE [exc |-> FALSE,
              text |-> JoinParts(
                (IF deep_lines # <<>>
                   THEN << <<"DEEP SOURCES:", NL>> \o JoinLines(deep_lines) >> ELSE <<>>)
                \o (IF cfg.context_shallow_count > 0 /\ shallow_lines # <<>>
                      THEN << <<"SHALLOW SOURCES (headlines):", NL>> \o JoinLines(shallow_lines) >>
                      ELSE <<>>))]

\* [r.get('url') for r in raw_results[:total_context_count]], as the script
\* reads it back: a string, or null
JsUrls(cfg, raw_results) ==
  [i \in 1 .. MinOf(cfg.context_deep_count + cfg.context_shallow_count, Len(raw_results)) |->
     IF raw_results[i].url = Absent THEN Null ELSE raw_results[i].url]

\* _parse_aux_results: the first deep + shallow results, absent keys as ''
ParseAuxResults(cfg, raw_results) ==
  [i \in 1 .. MinOf(cfg.context_deep_count + cfg.context_shallow_count, Len(raw_results)) |->
     [raw_results[i] EXCEPT !.url = UrlOrEmpty(raw_results[i])]]

\* the line of auxiliary source number i (from 0):
\* f"[{idx}] {domain}{date}: {title}: {content}" with idx = i + 1 + offset
AuxLine(i, offset, r) ==
  Label(i + 1 + offset) \o StripWww(Netloc(r.url).s) \o DateStr(r)
    \o <<":", SP>> \o r.title
    \o <<":", SP>> \o FirstChars(r.content, AUX_CONTENT_CHARS)

\* _format_aux_context_string: the text and the URLs, or exc when it raises
FormatAuxContextString(results, offset) ==
  LET source_lines == [i \in 1 .. Len(results) |-> AuxLine(i - 1, offset, results[i])]
  IN  IF \E i \in 1 .. Len(results) : results[i].url = Null
        THEN [exc |-> TRUE, text |-> <<>>, aux_urls |-> <<>>]
        ELSE [exc |-> FALSE,
              text |-> IF source_lines # <<>>
                         THEN <<"SOURCES:", NL>> \o JoinLines(source_lines) ELSE <<>>,
              aux_urls |-> [i \in 1 .. Len(results) |-> results[i].url]]

\* the JSON answer of /ai-auxiliary-search to a query that is not blank, for
\* a plugin with a credential: the context and the URLs, or only an error
AiAuxiliarySearch(cfg, offset, raw_results) ==
  LET made == FormatAuxContextString(ParseAuxResults(cfg, raw_results), offset)
  IN  IF made.exc THEN [context |-> Absent, new_urls |-> Absent]
      ELSE [context |-> Str(made.text), new_urls |-> made.aux_urls]

(***************************************************************************)
(* State of one request to /ai-stream                                      *)
(***************************************************************************)
VARIABLES
  environ,     \* os.environ, as _load_config reads it
  self,        \* the plugin's configuration, as _load_config left it
  data,        \* request.json: [warmup, tk]
  now,         \* time.time() when the request is handled, in ticks
  wire,        \* the bytes the upstream will send as its response body
  status,      \* HTTP status of the response (0: not handled yet)
  gen,         \* the stream generator: "none", "created", "streaming", "ended"
  how,         \* why it ended: "eof", "done", "status", "crash", "transport", "cancel"
  netCalls,    \* calls of network.stream made for this request
  sent,        \* the arguments of the last call of network.stream
  res_status,  \* res.status_code (0: no response)
  chunk_gen,   \* "unopened", "open", "exhausted" or "raised"
  pos,         \* bytes of the body read from chunk_gen so far
  pending,     \* bytes retained by utf8_decoder
  buffer,      \* the decoder's buffer
  emitted,     \* the deltas yielded to the caller, in order
  empties,     \* zero-length chunks chunk_gen has delivered so far
  answers,     \* search.result_container.answers, as post_search left it
  search,      \* the search post_search is called for: request header, query, results
  client,      \* the script of the page: its URL list, context and stream lock
  peer         \* a second request in flight: its own data, now, ..., emitted

vars == <<environ, self, data, now, wire, status, gen, how, netCalls, sent, res_status,
          chunk_gen, pos, pending, buffer, emitted, empties, answers, search, client, peer>>

request == <<environ, self, data, now, wire>>

Envs ==
  { [NoEnv EXCEPT !.LLM_PROVIDER = p, !.LLM_KEY = k, !.SXNG_LLM_SECRET = s] :
      p \in {"", "gemini", "openai", "ollama", "mistral"},
      k \in {<<>>, <<"K">>},
      s \in {<<>>, <<"S">>} }

\* clock readings, in ticks, around the expiry of the tokens below
Clock ==
  { Seconds(1), Seconds(TOKEN_EXPIRY_SEC + 1), Seconds(TOKEN_EXPIRY_SEC + 1) + 1,
    Seconds(TOKEN_EXPIRY_SEC + 2) }

Timestamps == {<<"0">>, <<"1">>, <<"2">>, <<"1", ".">>, <<"x">>, <<>>, <<"n", "a", "n">>}

\* signatures a caller may present for ts when the server's secret is secret
Signatures(ts, secret) ==
  { Sha256Hex(ts \o secret), Sha256Hex(ts \o <<"W">>), Sha256Hex(<<"0">> \o ts \o secret), <<>> }

\* values of the tk field of the request body
TkValues(secret) ==
  { [t |-> "absent"], [t |-> "null"], [t |-> "num"], [t |-> "list"],
    Str(<<>>), Str(<<"1">>), Str(Sha256Hex(<<"1">> \o secret)) }
  \cup UNION { {Str(ts \o <<".">> \o sig) : sig \in Signatures(ts, secret)} : ts \in Timestamps }

Requests(secret) == [warmup : BOOLEAN, tk : TkValues(secret)]

\* a body for the runs that are about the handler rather than the decoders
SmallBodies(cfg) ==
  IF cfg.is_gemini THEN {GeminiDoc(TextHe)} ELSE {OpenAILine(TextHi)}

\* no page has been delivered to a browser
NoClient ==
  [loaded |-> FALSE, urls |-> <<>>, originalContext |-> <<>>, auxContext |-> Absent,
   auxOffset |-> 0, followUps |-> 0, isStreaming |-> FALSE, streams |-> <<>>, fetches |-> 0]

\* a search for "why" on the first page of the general tab, without results
PlainSearch ==
  [aux |-> Absent, categories |-> {"general"}, pageno |-> 1, query |-> <<"w", "h", "y">>,
   results |-> <<>>, done |-> "", logged |-> ""]

Fresh ==
  /\ status = 0
  /\ gen = "none"
  /\ how = ""
  /\ netCalls = 0
  /\ sent = NoCall
  /\ res_status = 0
  /\ chunk_gen = "unopened"
  /\ pos = 0
  /\ pending = <<>>
  /\ buffer = <<>>
  /\ emitted = <<>>
  /\ empties = 0
  /\ answers = <<>>
  /\ client = NoClient

\* the plugin object before __init__ has run
NotLoaded == [LoadConfig(NoEnv) EXCEPT !.error = "not loaded"]

\* no second request
NoPeer == [gen |-> "absent"]

\* every configuration, every request, every clock reading
Init ==
  /\ environ \in Envs
  /\ self = LoadConfig(environ)
  /\ data \in Requests(self.secret)
  /\ now \in Clock
  /\ wire \in SmallBodies(self)
  /\ Fresh
  /\ search = PlainSearch
  /\ peer = NoPeer

ValidToken(cfg, ts) == Str(ts \o <<".">> \o Sha256Hex(ts \o cfg.secret))

\* mutant: the token signed with the credential instead of the secret
IssueTokenSignsWithKey(cfg, clock) ==
  LET ts == DecimalDigits(clock \div TicksPerSecond)
  IN  Str(ts \o <<".">> \o Sha256Hex(ts \o cfg.api_key))

\* post_search: ts = str(int(time.time())), tk = f"{ts}.{sig}", clock in ticks
IssueToken(cfg, clock) == ValidToken(cfg, DecimalDigits(clock \div TicksPerSecond))

\* one authenticated request to a Gemini configuration, every upstream body
InitGemini ==
  /\ environ = [NoEnv EXCEPT !.LLM_PROVIDER = "gemini", !.LLM_KEY = <<"K">>]
  /\ self = LoadConfig(environ)
  /\ data = [warmup |-> FALSE, tk |-> ValidToken(self, <<"1">>)]
  /\ now = Seconds(1)
  /\ wire \in Bodies(GeminiUnits, MaxUnits) \cup GeminiCases
  /\ Fresh
  /\ search = PlainSearch
  /\ peer = NoPeer

\* one authenticated request to an OpenAI-compatible configuration
InitOpenAI ==
  /\ environ = [NoEnv EXCEPT !.LLM_PROVIDER = "openai", !.LLM_KEY = <<"K">>]
  /\ self = LoadConfig(environ)
  /\ data = [warmup |-> FALSE, tk |-> ValidToken(self, <<"1">>)]
  /\ now = Seconds(1)
  /\ wire \in Bodies(OpenAIUnits, MaxUnits) \cup OpenAICases
  /\ Fresh
  /\ search = PlainSearch
  /\ peer = NoPeer

(***************************************************************************)
(* Actions                                                                 *)
(***************************************************************************)
\* mutant: the secret is rotated once a token has passed, so that a token
\* passes only once
HandleAiStreamRotatesSecret ==
  /\ self.error = ""
  /\ status = 0
  /\ status' = HandlerStatus(self, data, now)
  /\ gen' = IF status' = 200 THEN "created" ELSE "none"
  /\ self' = IF status' \in {200, 400} THEN [self EXCEPT !.secret = Sha256Hex(self.secret)] ELSE self
  /\ UNCHANGED <<environ, data, now, wire, peer, answers, search, client, empties, how, netCalls, sent, res_status, chunk_gen, pos, pending,
                 buffer, emitted>>

\* handle_ai_stream, up to the return of the Response; the route exists once
\* the plugin has been constructed
HandleAiStream ==
  /\ self.error = ""
  /\ status = 0
  /\ status' = HandlerStatus(self, data, now)
  /\ gen' = IF status' = 200 THEN "created" ELSE "none"
  /\ UNCHANGED <<request, peer, answers, search, client, empties, how, netCalls, sent, res_status, chunk_gen, pos, pending, buffer, emitted>>

UpstreamStatuses == {200, 204, 500}

\* mutant: a status other than 200 returns without draining chunk_gen
OpenUpstreamNoDrain(mine) ==
  /\ gen = "created"
  /\ self.is_gemini = mine
  /\ netCalls' = netCalls + 1
  /\ sent' = UpstreamCall(self, data, now)
  /\ \/ /\ res_status' = 200
        /\ chunk_gen' = "open"
        /\ gen' = "streaming"
        /\ how' = how
     \/ /\ res_status' \in UpstreamStatuses \ {200}
        /\ chunk_gen' = "open"
        /\ gen' = "ended"
        /\ how' = "status"
  /\ UNCHANGED <<request, peer, answers, search, client, empties, status, pos, pending, buffer, emitted>>

\* mutant: network.stream is tried again after it raised
OpenUpstreamRetries(mine) ==
  /\ gen = "created"
  /\ self.is_gemini = mine
  /\ netCalls < 3
  /\ netCalls' = netCalls + 1
  /\ sent' = UpstreamCall(self, data, now)
  /\ \/ /\ res_status' = 0
        /\ chunk_gen' = "unopened"
        /\ gen' = "created"
        /\ how' = how
     \/ /\ res_status' = 200
        /\ chunk_gen' = "open"
        /\ gen' = "streaming"
        /\ how' = how
     \/ /\ res_status' \in UpstreamStatuses \ {200}
        /\ chunk_gen' = "exhausted"
        /\ gen' = "ended"
        /\ how' = "status"
  /\ pos' = IF res_status' \in {0, 200} THEN pos ELSE Len(wire)
  /\ UNCHANGED <<request, peer, answers, search, client, empties, status, pending, buffer, emitted>>

\* The generator's first step: network.stream, then the status check.  The
\* call may raise; a status other than 200 drains chunk_gen and returns; the
\* drain ends early when chunk_gen raises.
OpenUpstream(mine) ==
  /\ gen = "created"
  /\ self.is_gemini = mine
  /\ netCalls' = netCalls + 1
  /\ sent' = UpstreamCall(self, data, now)
  /\ \/ /\ res_status' = 0
        /\ chunk_gen' = "unopened"
        /\ pos' = pos
        /\ gen' = "ended"
        /\ how' = "transport"
     \/ /\ res_status' = 200
        /\ chunk_gen' = "open"
        /\ pos' = pos
        /\ gen' = "streaming"
        /\ how' = how
     \/ /\ res_status' \in UpstreamStatuses \ {200}
        /\ gen' = "ended"
        /\ \/ /\ pos' = Len(wire)
              /\ chunk_gen' = "exhausted"
              /\ how' = "status"
           \/ /\ pos' \in 0 .. Len(wire)
              /\ chunk_gen' = "raised"
              /\ how' = "transport"
  /\ UNCHANGED <<request, peer, answers, search, client, empties, status, pending, buffer, emitted>>

\* `for chunk in chunk_gen` delivers the next n bytes of the body
Chunk(n) == SubSeq(wire, pos + 1, pos + n)

\* the sizes the next chunk may have (0: a zero-length chunk)
ChunkSizes ==
  LET sizes == IF pos = 0 THEN 1 .. Len(wire)
               ELSE {n \in 1 .. MaxChunk : pos + n <= Len(wire)} \cup {Len(wire) - pos}
  IN  (sizes \ {0}) \cup (IF empties < MaxEmpties THEN {0} ELSE {})

\* mutant: `if not chunk: break`, a zero-length chunk taken for the end
GeminiChunkEndsOnEmpty(n) ==
  /\ gen = "streaming"
  /\ self.is_gemini
  /\ pos + n <= Len(wire)
  /\ pos' = pos + n
  /\ IF Chunk(n) = <<>>
       THEN /\ empties' = empties + 1
            /\ gen' = "ended"
            /\ how' = "eof"
            /\ UNCHANGED <<pending, buffer, emitted, chunk_gen>>
       ELSE LET f == GeminiFeed(pending, buffer, Chunk(n))
            IN  /\ pending' = f.pending
                /\ buffer' = f.buffer
                /\ emitted' = emitted \o f.out
                /\ gen' = IF f.exc THEN "ended" ELSE gen
                /\ how' = IF f.exc THEN "crash" ELSE how
                /\ UNCHANGED <<chunk_gen, empties>>
  /\ UNCHANGED <<request, peer, answers, search, client, status, netCalls, sent, res_status>>

\* stream_gemini: one iteration of the chunk loop
GeminiChunk(n) ==
  /\ gen = "streaming"
  /\ self.is_gemini
  /\ pos + n <= Len(wire)
  /\ pos' = pos + n
  /\ IF Chunk(n) = <<>>
       THEN /\ empties' = empties + 1
            /\ UNCHANGED <<pending, buffer, emitted, gen, how, chunk_gen>>
       ELSE LET f == GeminiFeed(pending, buffer, Chunk(n))
            IN  /\ pending' = f.pending
                /\ buffer' = f.buffer
                /\ emitted' = emitted \o f.out
                /\ gen' = IF f.exc THEN "ended" ELSE gen
                /\ how' = IF f.exc THEN "crash" ELSE how
                /\ UNCHANGED <<chunk_gen, empties>>
  /\ UNCHANGED <<request, peer, answers, search, client, status, netCalls, sent, res_status>>

\* mutant: only JSONDecodeError is caught, any other exception raised while
\* decoding leaves the generator
OpenAIChunkRaises(n) ==
  /\ gen = "streaming"
  /\ ~self.is_gemini
  /\ pos + n <= Len(wire)
  /\ pos' = pos + n
  /\ IF Chunk(n) = <<>>
       THEN /\ empties' = empties + 1
            /\ UNCHANGED <<buffer, emitted, gen, how, chunk_gen>>
       ELSE LET f == OpenAIFeed(buffer, Chunk(n))
            IN  /\ buffer' = f.buffer
                /\ emitted' = emitted \o f.out
                /\ gen' = IF f.end = "exc" THEN "raised" ELSE IF f.end # "" THEN "ended" ELSE gen
                /\ how' = IF f.end = "done" THEN "done" ELSE IF f.end = "exc" THEN "crash" ELSE how
                /\ UNCHANGED <<chunk_gen, empties>>
  /\ UNCHANGED <<request, peer, answers, search, client, status, netCalls, sent, res_status, pending>>

\* stream_openai_compatible: one iteration of the chunk loop
OpenAIChunk(n) ==
  /\ gen = "streaming"
  /\ ~self.is_gemini
  /\ pos + n <= Len(wire)
  /\ pos' = pos + n
  /\ IF Chunk(n) = <<>>
       THEN /\ empties' = empties + 1
            /\ UNCHANGED <<buffer, emitted, gen, how, chunk_gen>>
       ELSE LET f == OpenAIFeed(buffer, Chunk(n))
            IN  /\ buffer' = f.buffer
                /\ emitted' = emitted \o f.out
                /\ gen' = IF f.end # "" THEN "ended" ELSE gen
                /\ how' = IF f.end = "done" THEN "done" ELSE IF f.end = "exc" THEN "crash" ELSE how
                /\ UNCHANGED <<chunk_gen, empties>>
  /\ UNCHANGED <<request, peer, answers, search, client, status, netCalls, sent, res_status, pending>>

\* mutant: content left in the buffer at the end of the input is an error
EndOfStreamRejectsRemainder(mine) ==
  /\ gen = "streaming"
  /\ self.is_gemini = mine
  /\ pos = Len(wire)
  /\ gen' = "ended"
  /\ how' = IF buffer # <<>> THEN "crash" ELSE "eof"
  /\ chunk_gen' = "exhausted"
  /\ UNCHANGED <<request, peer, answers, search, client, empties, status, netCalls, sent, res_status, pos, pending, buffer, emitted>>

\* mutant: at the end of the input the event-stream decoder takes what is
\* left in the buffer as a last line
EndOfStreamFlushesLastLine(mine) ==
  /\ gen = "streaming"
  /\ self.is_gemini = mine
  /\ pos = Len(wire)
  /\ gen' = "ended"
  /\ how' = "eof"
  /\ chunk_gen' = "exhausted"
  /\ emitted' = IF mine THEN emitted ELSE emitted \o OpenAIDrain(buffer \o <<NL>>, <<>>).out
  /\ UNCHANGED <<request, peer, answers, search, client, empties, status, netCalls, sent, res_status, pos, pending, buffer>>

\* chunk_gen is exhausted: the loop and the generator end
EndOfStream(mine) ==
  /\ gen = "streaming"
  /\ self.is_gemini = mine
  /\ pos = Len(wire)
  /\ gen' = "ended"
  /\ how' = "eof"
  /\ chunk_gen' = "exhausted"
  /\ UNCHANGED <<request, peer, answers, search, client, empties, status, netCalls, sent, res_status, pos, pending, buffer, emitted>>

\* mutant: a transport error takes back what was delivered
TransportErrorRetracts(mine) ==
  /\ gen = "streaming"
  /\ self.is_gemini = mine
  /\ gen' = "ended"
  /\ how' = "transport"
  /\ chunk_gen' = "raised"
  /\ emitted' = <<>>
  /\ UNCHANGED <<request, peer, answers, search, client, empties, status, netCalls, sent, res_status, pos, pending, buffer>>

\* chunk_gen raises (timeout, connection reset): `except Exception` ends the generator
TransportError(mine) ==
  /\ gen = "streaming"
  /\ self.is_gemini = mine
  /\ gen' = "ended"
  /\ how' = "transport"
  /\ chunk_gen' = "raised"
  /\ UNCHANGED <<request, peer, answers, search, client, empties, status, netCalls, sent, res_status, pos, pending, buffer, emitted>>

\* The caller goes away: the server closes the response iterable, and the
\* generator, if it has started, ends with GeneratorExit at the yield it is
\* suspended at.  That yield is one of those of the chunk being processed, so
\* the deltas up to it are out and the later ones are not; GeneratorExit is no
\* Exception, nothing in the generator catches it, and nothing touches
\* chunk_gen.
CallerDisconnect(mine) ==
  /\ self.is_gemini = mine
  /\ \/ /\ gen = "created"
        /\ UNCHANGED <<pos, emitted>>
     \/ /\ gen = "streaming"
        /\ \E n \in ChunkSizes \ {0} :
             LET out == IF mine THEN GeminiFeed(pending, buffer, Chunk(n)).out
                        ELSE OpenAIFeed(buffer, Chunk(n)).out
             IN  /\ pos + n <= Len(wire)
                 /\ pos' = pos + n
                 /\ \E k \in 1 .. Len(out) : emitted' = emitted \o SubSeq(out, 1, k)
  /\ gen' = "ended"
  /\ how' = "cancel"
  /\ UNCHANGED <<request, peer, answers, search, client, empties, status, netCalls, sent, res_status, chunk_gen, pending, buffer>>

\* what belongs to the running request alone: the arguments and locals of its
\* call of handle_ai_stream and of its generator
Private ==
  [data |-> data, now |-> now, wire |-> wire, status |-> status, gen |-> gen,
   how |-> how, netCalls |-> netCalls, sent |-> sent, res_status |-> res_status,
   chunk_gen |-> chunk_gen, pos |-> pos, pending |-> pending, buffer |-> buffer,
   emitted |-> emitted, empties |-> empties]

\* mutant: one decoder buffer for all requests, as an attribute of the plugin
SwitchSharedBuffer ==
  /\ peer # NoPeer
  /\ peer' = [Private EXCEPT !.buffer = peer.buffer]
  /\ data' = peer.data
  /\ now' = peer.now
  /\ wire' = peer.wire
  /\ status' = peer.status
  /\ gen' = peer.gen
  /\ how' = peer.how
  /\ netCalls' = peer.netCalls
  /\ sent' = peer.sent
  /\ res_status' = peer.res_status
  /\ chunk_gen' = peer.chunk_gen
  /\ pos' = peer.pos
  /\ pending' = peer.pending
  /\ empties' = peer.empties
  /\ UNCHANGED <<environ, self, answers, search, client, buffer, emitted>>

\* The server runs the other request for a while: each call of
\* handle_ai_stream has its own arguments and locals, each generator its own
\* frame (decoder, buffer, utf8_decoder, chunk_gen), and both read the one
\* plugin object self.
Switch ==
  /\ peer # NoPeer
  /\ peer' = Private
  /\ data' = peer.data
  /\ now' = peer.now
  /\ wire' = peer.wire
  /\ status' = peer.status
  /\ gen' = peer.gen
  /\ how' = peer.how
  /\ netCalls' = peer.netCalls
  /\ sent' = peer.sent
  /\ res_status' = peer.res_status
  /\ chunk_gen' = peer.chunk_gen
  /\ pos' = peer.pos
  /\ pending' = peer.pending
  /\ empties' = peer.empties
  /\ buffer' = peer.buffer
  /\ emitted' = peer.emitted
  /\ UNCHANGED <<environ, self, answers, search, client>>

GeminiOpen == OpenUpstream(TRUE)
GeminiNext == \E n \in ChunkSizes : GeminiChunk(n)
GeminiEnd == EndOfStream(TRUE)
GeminiError == TransportError(TRUE)
OpenAIOpen == OpenUpstream(FALSE)
OpenAINext == \E n \in ChunkSizes : OpenAIChunk(n)
OpenAIEnd == EndOfStream(FALSE)
OpenAIError == TransportError(FALSE)
GeminiCancel == CallerDisconnect(TRUE)
OpenAICancel == CallerDisconnect(FALSE)

NextGemini ==
  HandleAiStream \/ GeminiOpen \/ GeminiNext \/ GeminiEnd \/ GeminiError \/ GeminiCancel
NextOpenAI ==
  HandleAiStream \/ OpenAIOpen \/ OpenAINext \/ OpenAIEnd \/ OpenAIError \/ OpenAICancel
Next == NextGemini \/ NextOpenAI

Spec == Init /\ [][Next]_vars
SpecGemini == InitGemini /\ [][NextGemini]_vars
SpecOpenAI == InitOpenAI /\ [][NextOpenAI]_vars

\* one authenticated request to either kind of provider, every upstream body
InitDecoders == InitGemini \/ InitOpenAI
SpecDecoders == InitDecoders /\ [][Next]_vars

\* a request whose caller stays: the server calls the handler and iterates
\* the generator until it ends, and chunk_gen, a finite sequence read with a
\* timeout, delivers a chunk, ends or raises
NextTermination ==
  \/ HandleAiStream
  \/ GeminiError \/ GeminiEnd \/ GeminiOpen \/ GeminiNext
  \/ OpenAIError \/ OpenAIEnd \/ OpenAIOpen \/ OpenAINext
SpecTermination == InitDecoders /\ [][NextTermination]_vars /\ WF_vars(NextTermination)

\* the times, in ticks, at which a results page is built
IssueTimes ==
  {0, 1, Seconds(1), Seconds(1) + 1, Seconds(9) + 1, Seconds(10), Seconds(10) + 1}

\* the times, in ticks, at which the page's script posts its request: at
\* once, or about TOKEN_EXPIRY_SEC after the page was built
PresentTimes ==
  IssueTimes \union
    {t + Seconds(TOKEN_EXPIRY_SEC) + e : t \in IssueTimes, e \in {-1, 0, 1}}

\* the queries searched for: plain, and one that spells the footer's tag
SearchQueries == { <<"w", "h", "y">>, <<"<div id=", QUOTE, "sxng-footer", QUOTE, ">">> }

\* a search is about to be answered; nothing has been posted to /ai-stream
InitRoundTrip ==
  /\ environ \in Envs
  /\ self = LoadConfig(environ)
  /\ data = [warmup |-> FALSE, tk |-> [t |-> "absent"]]
  /\ now \in IssueTimes
  /\ wire \in SmallBodies(self)
  /\ Fresh
  /\ search \in {[PlainSearch EXCEPT !.query = q] : q \in SearchQueries}
  /\ peer = NoPeer

\* mutant: the page number is not looked at
PostSearchSkipsAnyPage(cfg, srch) ==
  LET current_tabs == IF srch.categories = {} THEN {"general"} ELSE srch.categories
  IN  \/ srch.aux # Absent /\ srch.aux.s # <<>>
      \/ ~cfg.active
      \/ cfg.api_key = <<>>
      \/ cfg.allowed_tabs \cap current_tabs = {}

\* the early returns of post_search: `request and hasattr(request, 'headers')
\* and request.headers.get('X-AI-Auxiliary')`, true of a header with a value
\* that is not empty, then
\* `not self.active or not self.api_key or pageno > 1 or not
\* self.allowed_tabs.intersection(current_tabs)`
PostSearchSkips(cfg, srch) ==
  LET current_tabs == IF srch.categories = {} THEN {"general"} ELSE srch.categories
  IN  \/ srch.aux # Absent /\ srch.aux.s # <<>>
      \/ ~cfg.active
      \/ cfg.api_key = <<>>
      \/ srch.pageno > 1
      \/ cfg.allowed_tabs \cap current_tabs = {}

\* post_search, the whole handler.  An early return leaves everything as it
\* was.  Otherwise the context is assembled; an exception is logged and
\* the empty results are returned; else the page fragment, with a token
\* issued now, is added to the answers, and the script of the page starts
\* with that token, the context and the URL list.  search.done records the
\* way the call ended, search.logged the exception it caught.
PostSearch ==
  /\ self.error = ""
  /\ status = 0
  /\ search.done = ""
  /\ LET made == AssembleContext(self, search.results)
         tk   == IssueToken(self, now)
     IN  IF PostSearchSkips(self, search)
           THEN /\ search' = [search EXCEPT !.done = "returned"]
                /\ UNCHANGED <<answers, data, client>>
         ELSE IF made.exc
           THEN /\ search' = [search EXCEPT !.done = "returned", !.logged = "TypeError"]
                /\ UNCHANGED <<answers, data, client>>
         ELSE /\ search' = [search EXCEPT !.done = "returned"]
              /\ answers' = Append(answers, HtmlPayload(self, Strip(search.query), tk))
              /\ data' = [data EXCEPT !.tk = tk]
              /\ client' = [NoClient EXCEPT !.loaded = TRUE,
                                            !.urls = JsUrls(self, search.results),
                                            !.originalContext = made.text]
  /\ UNCHANGED <<environ, self, now, wire, peer, empties, status, gen, how, netCalls, sent, res_status, chunk_gen,
                 pos, pending, buffer, emitted>>

\* time passes before the page's script posts its request
TimePasses ==
  /\ status = 0
  /\ \E later \in PresentTimes :
       /\ later > now
       /\ now' = later
  /\ UNCHANGED <<environ, self, data, wire, peer, answers, search, client, empties, status, gen, how, netCalls, sent, res_status, chunk_gen,
                 pos, pending, buffer, emitted>>

NextRoundTrip == PostSearch \/ TimePasses \/ HandleAiStream
SpecRoundTrip == InitRoundTrip /\ [][NextRoundTrip]_vars

\* AIAnswersPlugin.__init__: the attributes are those _load_config assigns
Construct ==
  /\ self = NotLoaded
  /\ self' = LoadConfig(environ)
  /\ UNCHANGED <<environ, data, now, wire, peer, answers, search, client, empties, status, gen, how, netCalls, sent,
                 res_status, chunk_gen, pos, pending, buffer, emitted>>

\* values of LLM_URL: unset; a custom endpoint with a blank before it; plain
\* HTTP to a host that is not this machine; an Azure resource without a
\* scheme; plain HTTP to this machine
ConfigUrls ==
  { <<>>,
    <<SP, HTTPS, "proxy.example", "/v1">>,
    <<HTTP, "example.org", "/v1">>,
    <<"x.", "openai", ".azure.com", "/deploy">>,
    <<HTTP, "127.0.0.1", ":11434", "/v1">> }

\* LLM_MODEL, LLM_MAX_TOKENS and LLM_TEMPERATURE: all unset; an empty model
\* and no numbers; a model with a blank before it and numbers
ConfigTuning ==
  { <<Unset, <<>>, <<>>>>,
    <<Given(<<>>), <<"x">>, <<"x">>>>,
    <<Given(<<SP, "m">>), <<"7">>, <<"1">>>> }

ConfigEnvs ==
  { [NoEnv EXCEPT !.LLM_PROVIDER = p, !.LLM_URL = u, !.LLM_KEY = k, !.LLM_MODEL = s[1],
                  !.LLM_MAX_TOKENS = s[2], !.LLM_TEMPERATURE = s[3]] :
      p \in {""} \cup PRESET_PROVIDERS \cup {"mistral"},
      u \in ConfigUrls,
      k \in {<<>>, <<"K">>},
      s \in ConfigTuning }

\* the process starts with some environment; a request signed with the secret
\* that environment gives is on its way, and the upstream will answer with a
\* body of one of the two formats
InitConfig ==
  /\ environ \in ConfigEnvs
  /\ self = NotLoaded
  /\ data = [warmup |-> FALSE, tk |-> ValidToken(LoadConfig(environ), <<"1">>)]
  /\ now = Seconds(1)
  /\ wire \in {GeminiDoc(TextHe), OpenAILine(TextHi)}
  /\ Fresh
  /\ search = PlainSearch
  /\ peer = NoPeer

NextConfig == Construct \/ Next
SpecConfig == InitConfig /\ [][NextConfig]_vars

\* LLM_INTERACTIVE: unset, on in several spellings, off, empty
InteractiveSettings ==
  { Unset, Given(<<"true">>), Given(<<SP, "TRUE", SP>>), Given(<<"on">>), Given(<<"1">>),
    Given(<<"false">>), Given(<<"0">>), Given(<<>>), Given(<<"enabled">>) }

\* configurations with and without a credential, in every mode
PageEnvs ==
  { [NoEnv EXCEPT !.LLM_PROVIDER = p, !.LLM_KEY = k, !.LLM_INTERACTIVE = i] :
      p \in {"gemini", "openai", "ollama"}, k \in {<<>>, <<"K">>}, i \in InteractiveSettings }

\* a search is about to be answered by a plugin in some mode
InitPage ==
  /\ environ \in PageEnvs
  /\ self = LoadConfig(environ)
  /\ data = [warmup |-> FALSE, tk |-> [t |-> "absent"]]
  /\ now \in IssueTimes
  /\ wire \in SmallBodies(self)
  /\ Fresh
  /\ search \in {[PlainSearch EXCEPT !.query = q] : q \in SearchQueries}
  /\ peer = NoPeer

SpecPage == InitPage /\ [][NextRoundTrip]_vars

\* the results a search may come back with: a host behind www. and a content
\* of two lines; a dated result whose title has a blank before it and a line
\* break followed by the spelling of a label; a url of None; no url key; a
\* title of more than SHALLOW_TITLE_CHARS characters
ResA ==
  [url |-> Str(<<HTTPS, WWW, "a.org", "/x">>), title |-> <<"A">>,
   content |-> <<"a", NL, "a">>, publishedDate |-> <<>>]
ResB ==
  [url |-> Str(<<HTTP, "b.net", "/">>), title |-> <<SP, "B", NL, "[", "9", "]", SP, "z">>,
   content |-> <<"b">>, publishedDate |-> <<"2024">>]
ResNull == [url |-> Null, title |-> <<"N">>, content |-> <<"n">>, publishedDate |-> <<>>]
ResBare == [url |-> Absent, title |-> <<"U">>, content |-> <<>>, publishedDate |-> <<>>]
ResLong ==
  [url |-> Str(<<HTTPS, "c.io", "/">>),
   title |-> [i \in 1 .. SHALLOW_TITLE_CHARS + 1 |-> IF i = 1 THEN "L" ELSE "t"],
   content |-> <<"c">>, publishedDate |-> <<>>]
ResD ==
  [url |-> Str(<<HTTPS, WWW, "d.dev", "/">>), title |-> <<"D">>, content |-> <<"d">>,
   publishedDate |-> <<"2025">>]

\* the most results a search comes back with
MaxResults == 3
\* the most follow-up questions asked on one page
MaxFollowUps == 2

\* the result lists: up to MaxResults different results in any order
ResultLists ==
  LET Pool == {ResA, ResB, ResNull, ResBare, ResLong}
  IN  UNION { { l \in [1 .. n -> Pool] : \A i, j \in 1 .. n : i # j => l[i] # l[j] } :
              n \in 0 .. MaxResults }

\* the result lists of the searches behind follow-up questions, with titles
\* of one line
AuxResultLists == { <<>>, <<ResD, ResA>>, <<ResNull>>, <<ResBare, ResD, ResLong>> }

\* a plugin for Gemini with a credential
SearchEnv == [NoEnv EXCEPT !.LLM_PROVIDER = "gemini", !.LLM_KEY = <<"K">>]

\* the two context counts: unset, small, negative, not a number
CountEnvs ==
  { [SearchEnv EXCEPT !.LLM_CONTEXT_DEEP_COUNT = d, !.LLM_CONTEXT_SHALLOW_COUNT = h] :
      d \in {Unset, Given(<<"0">>), Given(<<"1">>), Given(<<"2">>), Given(<<"-", "1">>)},
      h \in {Unset, Given(<<"0">>), Given(<<"1">>), Given(<<"x">>)} }

\* the settings post_search looks at before it builds anything
GuardEnvs ==
  { SearchEnv,
    [SearchEnv EXCEPT !.active = FALSE],
    [SearchEnv EXCEPT !.LLM_KEY = <<>>],
    [SearchEnv EXCEPT !.LLM_KEY = <<>>, !.active = FALSE],
    [SearchEnv EXCEPT !.LLM_PROVIDER = ""],
    [SearchEnv EXCEPT !.LLM_INTERACTIVE = Given(<<"false">>)],
    [SearchEnv EXCEPT !.LLM_TABS = Given(<<"it">>)],
    [SearchEnv EXCEPT !.LLM_TABS = Given(<<"it", ",", SP, "images">>)],
    [SearchEnv EXCEPT !.LLM_TABS = Given(<<>>)] }

\* the searches post_search may be called for: any page, any tabs, without
\* the X-AI-Auxiliary header, with the header as /ai-auxiliary-search sends it
\* and with the header and an empty value
GuardSearches ==
  { [PlainSearch EXCEPT !.aux = a, !.pageno = n, !.categories = c, !.results = <<ResA, ResB>>] :
      a \in {Absent, Str(<<"1">>), Str(<<>>)}, n \in {1, 2}, c \in {{}, {"general"}, {"it"}, {"images", "news"}} }

\* a search has come back and post_search is about to be called
InitSearch ==
  /\ \/ /\ environ \in CountEnvs
        /\ search \in {[PlainSearch EXCEPT !.results = l] : l \in ResultLists}
     \/ /\ environ \in GuardEnvs
        /\ search \in GuardSearches
  /\ self = LoadConfig(environ)
  /\ data = [warmup |-> FALSE, tk |-> [t |-> "absent"]]
  /\ now \in {Seconds(1), Seconds(10) + 1}
  /\ wire = <<>>
  /\ Fresh
  /\ peer = NoPeer

\* handleAction with a question typed in, up to the call of startStream: the
\* script posts the number of URLs it holds as the offset, /ai-auxiliary-search
\* runs a search without plugins and answers, and the script appends the
\* new URLs when the answer has a context.  The footer with the form is hidden
\* from the submit to the end of the stream, so the questions come one by one.
AuxiliarySearch ==
  /\ client.loaded
  /\ self.interactive
  /\ client.followUps < MaxFollowUps
  /\ \E raw \in AuxResultLists :
       LET offset  == Len(client.urls)
           auxData == AiAuxiliarySearch(self, offset, raw)
           truthy  == auxData.context # Absent /\ auxData.context.s # <<>>
       IN  client' = [client EXCEPT !.followUps = @ + 1,
                                    !.auxOffset = offset,
                                    !.auxContext = IF truthy THEN auxData.context ELSE Absent,
                                    !.urls = IF truthy THEN @ \o auxData.new_urls ELSE @]
  /\ UNCHANGED <<environ, self, data, now, wire, peer, answers, search, empties, status, gen, how,
                 netCalls, sent, res_status, chunk_gen, pos, pending, buffer, emitted>>

NextSearch == PostSearch \/ AuxiliarySearch
SpecSearch == InitSearch /\ [][NextSearch]_vars

\* the most calls of startStream on one page
MaxCalls == 3

\* mutant: the lock is released at the end of the try block, not in a finally
IsStreamingAfterNoFinally(exit, was) ==
  IF exit = "success" THEN FALSE ELSE was

\* isStreaming after a call of startStream has ended: the call that found the
\* lock taken returns before the try and leaves it; every other end goes
\* through `finally { isStreaming = false; }`
IsStreamingAfter(exit, was) ==
  IF exit = "ignored" THEN was ELSE FALSE

\* a call of startStream that ended in the way exit
Exited(exit) == [pc |-> "exit", exit |-> exit, started |-> FALSE]

\* the script of a page calls startStream: at load, from the regenerate
\* button or from handleAction (the last two only in interactive mode).
\* `if (isStreaming) { console.warn(...); return; }`, else the lock is taken
\* and the code runs up to `await fetch('/ai-stream', ...)`.  client.streams
\* holds the calls in the order they were made, client.fetches counts the
\* requests startStream sent.
StartStream ==
  /\ client.loaded
  /\ Len(client.streams) < (IF self.interactive THEN MaxCalls ELSE 1)
  /\ client' =
       IF client.isStreaming
         THEN [client EXCEPT !.streams = Append(@, Exited("ignored")),
                             !.isStreaming = IsStreamingAfter("ignored", client.isStreaming)]
         ELSE [client EXCEPT !.streams = Append(@, [pc |-> "fetch", exit |-> "", started |-> FALSE]),
                             !.isStreaming = TRUE,
                             !.fetches = @ + 1]
  /\ UNCHANGED <<environ, self, data, now, wire, peer, answers, search, empties, status, gen, how,
                 netCalls, sent, res_status, chunk_gen, pos, pending, buffer, emitted>>

\* the call i ends in the way exit
EndStream(i, exit) ==
  client' = [client EXCEPT !.streams[i] = Exited(exit),
                           !.isStreaming = IsStreamingAfter(exit, client.isStreaming)]

\* the fetch of a call settles: it rejects (no network, or the abort after 60
\* seconds), which the catch block takes; the status is not OK, `return`;
\* or the body is there to be read
FetchSettles ==
  /\ \E i \in 1 .. Len(client.streams) :
       /\ client.streams[i].pc = "fetch"
       /\ \/ EndStream(i, "exception")
          \/ EndStream(i, "not ok")
          \/ client' = [client EXCEPT !.streams[i].pc = "read"]
  /\ UNCHANGED <<environ, self, data, now, wire, peer, answers, search, empties, status, gen, how,
                 netCalls, sent, res_status, chunk_gen, pos, pending, buffer, emitted>>

\* `await reader.read()` of a call settles: a chunk with text (one without
\* changes nothing), the end of the body (`if (!started) { ... return; }`,
\* else the turn is recorded), or an error
ReadSettles ==
  /\ \E i \in 1 .. Len(client.streams) :
       /\ client.streams[i].pc = "read"
       /\ \/ client' = [client EXCEPT !.streams[i].started = TRUE]
          \/ EndStream(i, IF client.streams[i].started THEN "success" ELSE "no response")
          \/ EndStream(i, "exception")
  /\ UNCHANGED <<environ, self, data, now, wire, peer, answers, search, empties, status, gen, how,
                 netCalls, sent, res_status, chunk_gen, pos, pending, buffer, emitted>>

\* a search of two results is about to be answered, in either mode
InitClient ==
  /\ environ \in {SearchEnv, [SearchEnv EXCEPT !.LLM_INTERACTIVE = Given(<<"false">>)]}
  /\ self = LoadConfig(environ)
  /\ data = [warmup |-> FALSE, tk |-> [t |-> "absent"]]
  /\ now = Seconds(1)
  /\ wire = <<>>
  /\ Fresh
  /\ search = [PlainSearch EXCEPT !.results = <<ResA, ResB>>]
  /\ peer = NoPeer

NextClient == PostSearch \/ StartStream \/ FetchSettles \/ ReadSettles
SpecClient == InitClient /\ [][NextClient]_vars

\* the fields of a request body that go into the prompt
Queries ==
  { [t |-> "absent"], Str(<<>>), Str(CONTINUE_QUERY), Str(<<"c">> \o Tail(CONTINUE_QUERY)),
    Str(CONTINUE_QUERY \o <<SP>>), Str(<<"w", "h", "y">>) }
PriorAnswers == { [t |-> "absent"], [t |-> "null"], Str(<<>>), Str(<<"p">>) }
Contexts == { [t |-> "absent"], Str(<<"[", "1", "]", SP, "s">>) }
Languages == { [t |-> "absent"], Str(<<"auto">>), Str(<<"de">>) }

\* configurations with a credential: both families, the provider with the
\* header of its own, a local provider and an unknown one
PromptEnvs ==
  { [NoEnv EXCEPT !.LLM_PROVIDER = "gemini", !.LLM_KEY = <<"K">>],
    [NoEnv EXCEPT !.LLM_PROVIDER = "gemini", !.LLM_KEY = <<"K">>,
                  !.LLM_URL = <<HTTPS, "proxy.example", "/g", "?", "alt=sse">>],
    [NoEnv EXCEPT !.LLM_PROVIDER = "openai", !.LLM_KEY = <<"K">>, !.LLM_MAX_TOKENS = <<"7">>],
    [NoEnv EXCEPT !.LLM_PROVIDER = "azure", !.LLM_KEY = <<"K">>,
                  !.LLM_URL = <<HTTPS, "x.", "openai", ".azure.com", "/deploy">>],
    [NoEnv EXCEPT !.LLM_PROVIDER = "ollama"],
    [NoEnv EXCEPT !.LLM_PROVIDER = "mistral", !.LLM_KEY = <<"K">>] }

\* an authenticated request with any query, prior answer, context and language
InitPrompt ==
  /\ environ \in PromptEnvs
  /\ self = LoadConfig(environ)
  /\ data \in { [warmup |-> FALSE, tk |-> ValidToken(self, <<"1">>), q |-> q,
                 prev_answer |-> pa, context |-> c, lang |-> l] :
                 q \in Queries, pa \in PriorAnswers, c \in Contexts, l \in Languages }
  /\ now = Seconds(1)
  /\ wire \in SmallBodies(self)
  /\ Fresh
  /\ search = PlainSearch
  /\ peer = NoPeer

\* the handler, and the generator up to the answer of the upstream
NextPrompt == HandleAiStream \/ GeminiOpen \/ OpenAIOpen
SpecPrompt == InitPrompt /\ [][NextPrompt]_vars

\* prior answers up to and beyond the window of prev_answer
LongPriorAnswers ==
  { [t |-> "absent"], [t |-> "null"], Str(<<>>), Str(<<"p">>),
    Str([i \in 1 .. PREV_ANSWER_WINDOW |-> "p"]),
    Str([i \in 1 .. PREV_ANSWER_WINDOW + 1 |-> IF i = 1 THEN "o" ELSE "p"]) }

\* an authenticated request with any query and a prior answer of any length
InitHistory ==
  /\ environ \in { [NoEnv EXCEPT !.LLM_PROVIDER = "gemini", !.LLM_KEY = <<"K">>],
                   [NoEnv EXCEPT !.LLM_PROVIDER = "openai", !.LLM_KEY = <<"K">>,
                                 !.LLM_MAX_TOKENS = <<"7">>] }
  /\ self = LoadConfig(environ)
  /\ data \in { [warmup |-> FALSE, tk |-> ValidToken(self, <<"1">>), q |-> q,
                 prev_answer |-> pa, context |-> c] :
                 q \in Queries, pa \in LongPriorAnswers, c \in Contexts }
  /\ now = Seconds(1)
  /\ wire \in SmallBodies(self)
  /\ Fresh
  /\ search = PlainSearch
  /\ peer = NoPeer

SpecHistory == InitHistory /\ [][NextPrompt]_vars

\* one request body presented twice, the second time no earlier than the first
InitReplay ==
  /\ environ \in Envs
  /\ self = LoadConfig(environ)
  /\ data \in {r \in Requests(self.secret) : ~r.warmup}
  /\ now \in Clock
  /\ wire \in SmallBodies(self)
  /\ Fresh
  /\ search = PlainSearch
  /\ \E later \in Clock : later >= now /\ peer = [Private EXCEPT !.now = later]

NextReplay == HandleAiStream \/ Switch
SpecReplay == InitReplay /\ [][NextReplay]_vars

\* the bodies of two requests that are in flight together
PairedBodies(cfg) ==
  IF cfg.is_gemini THEN <<GeminiDoc(TextHe), <<SP>> \o GeminiDoc(TextLlo)>>
  ELSE <<OpenAILine(TextHi), OpenAILine(<<"x">>) \o DoneLine>>

\* two authenticated requests to one plugin, both with an upstream that has
\* answered 200, has delivered its zero-length chunks and is about to send
\* its body
InitConcurrent ==
  /\ environ \in { [NoEnv EXCEPT !.LLM_PROVIDER = p, !.LLM_KEY = <<"K">>] :
                     p \in {"gemini", "openai"} }
  /\ self = LoadConfig(environ)
  /\ data = [warmup |-> FALSE, tk |-> ValidToken(self, <<"1">>)]
  /\ now = Seconds(1)
  /\ wire = PairedBodies(self)[1]
  /\ status = HandlerStatus(self, data, now)
  /\ gen = "streaming"
  /\ how = ""
  /\ netCalls = 1
  /\ sent = UpstreamCall(self, data, now)
  /\ res_status = 200
  /\ chunk_gen = "open"
  /\ pos = 0
  /\ pending = <<>>
  /\ buffer = <<>>
  /\ emitted = <<>>
  /\ empties = MaxEmpties
  /\ answers = <<>>
  /\ client = NoClient
  /\ search = PlainSearch
  /\ peer = [Private EXCEPT !.wire = PairedBodies(self)[2], !.now = Seconds(2)]

\* the steps of the two generators, in any order
NextConcurrent ==
  \/ GeminiNext \/ GeminiEnd \/ GeminiError \/ GeminiCancel
  \/ OpenAINext \/ OpenAIEnd \/ OpenAIError \/ OpenAICancel
  \/ Switch

SpecConcurrent == InitConcurrent /\ [][NextConcurrent]_vars

(***************************************************************************)
(* Properties of the handler                                               *)
(***************************************************************************)
Handled == status # 0

\* the request went through token verification (it is no warmup probe)
Verified == Handled /\ ~data.warmup

\* the token passed verification: the handler went on to the credential test
Accepted == status \in {200, 400}

HasDot(tk) == tk.t = "str" /\ LastDot(tk.s) # 0
TsOf(tk) == RSplitDot(tk.s)[1]
SigOf(tk) == RSplitDot(tk.s)[2]
Numeric(ts) == ~ParseFloat(ts).err /\ ~ParseFloat(ts).nan
Age(ts) == now - Seconds(ParseFloat(ts).val)
SignedBy(tk, secret) == SigOf(tk) = Sha256Hex(TsOf(tk) \o secret)

Malformed(tk) ==
  \/ tk.t # "str"
  \/ tk.s = <<>>
  \/ LastDot(tk.s) = 0
  \/ ParseFloat(TsOf(tk)).err

\* C2: verification fails closed: a request that reaches the verification with
\* a malformed tk is answered 403, and no request is answered with the 500 of
\* an unhandled exception.
C2_MalformedTokenIs403 ==
  /\ status # 500
  /\ (Verified /\ Malformed(data.tk)) => status = 403

\* a tk that is not a string was answered 403
C2_Witness == status = 403 /\ ~data.warmup /\ data.tk.t = "null" /\ self.has_secret

\* C3: an upstream call is made only for a request that is no warmup probe,
\* whose token was verified and for which a credential is configured; a
\* request answered 403, 400 or as a warmup probe makes none.
C3_NoUpstreamCallUnlessVerified ==
  /\ netCalls > 0 =>
       /\ status = 200
       /\ ~data.warmup
       /\ self.api_key # <<>>
       /\ HasDot(data.tk)
       /\ SignedBy(data.tk, self.secret)
       /\ Numeric(TsOf(data.tk)) => Age(TsOf(data.tk)) <= Seconds(TOKEN_EXPIRY_SEC)
  /\ (status \in {400, 403} \/ (Handled /\ data.warmup)) => (netCalls = 0 /\ gen = "none")

\* the upstream was called for a verified request
C3_Witness == netCalls = 1 /\ status = 200 /\ res_status = 200

\* C4 (as claimed): without a credential every request that is no warmup probe
\* is answered 400, never 403.
C4_UnconfiguredIs400 ==
  (Verified /\ self.api_key = <<>>) => status = 400

UpstreamFailed == gen = "ended" /\ how \in {"status", "crash", "transport"}

\* C7: after an upstream status outside 2xx nothing is decoded and no delta is
\* emitted, chunk_gen has been read until it ended (to the last byte of the
\* body unless the transport raised), and the request has failed.
C7_Non2xxDrainsAndFails ==
  (res_status # 0 /\ res_status \notin 200 .. 299) =>
    /\ emitted = <<>>
    /\ buffer = <<>>
    /\ pending = <<>>
    /\ UpstreamFailed
    /\ chunk_gen \in {"exhausted", "raised"}
    /\ chunk_gen = "exhausted" => pos = Len(wire)
    /\ how = "status" => chunk_gen = "exhausted"

\* a 500 whose body, holding a document with text, was drained to its end
C7_Witness ==
  /\ res_status = 500
  /\ how = "status"
  /\ wire # <<>>
  /\ pos = Len(wire)
  /\ emitted = <<>>

(***************************************************************************)
(* Properties of the concatenated-JSON decoder                             *)
(***************************************************************************)
Prefix(n) == SubSeq(wire, 1, n)

\* the decoder fed all of bytes as one chunk
GeminiWhole(bytes) ==
  IF bytes = <<>> THEN [pending |-> <<>>, buffer |-> <<>>, out |-> <<>>, exc |-> FALSE]
  ELSE GeminiFeed(<<>>, <<>>, bytes)

\* chunks are being decoded, or were until the stream ended of itself
Decoding == res_status = 200 /\ how \notin {"transport", "cancel"}

\* C5: however the body is cut into chunks, the deltas emitted once the bytes
\* up to pos are read, the retained buffer and an exception raised on the way
\* are those of feeding the same bytes as one chunk; at the end of the body
\* they are those of feeding the whole body at once; the two documents "He"
\* and "llo" give "He" then "llo".
C5_ChunkBoundaryIndependence ==
  /\ (self.is_gemini /\ Decoding) =>
       LET whole == GeminiWhole(Prefix(pos))
       IN  /\ emitted = whole.out
           /\ (how = "crash") = whole.exc
           /\ how # "crash" => (buffer = whole.buffer /\ pending = whole.pending)
  /\ (self.is_gemini /\ how \in {"eof", "crash"}) =>
       /\ emitted = GeminiWhole(wire).out
       /\ (how = "crash") = GeminiWhole(wire).exc
  /\ (how = "eof" /\ wire = GeminiDoc(TextHe) \o GeminiDoc(TextLlo)) =>
       emitted = <<TextHe, TextLlo>>

\* "He" is out and a chunk boundary lies inside the second document
C5_Witness ==
  /\ wire = GeminiDoc(TextHe) \o GeminiDoc(TextLlo)
  /\ gen = "streaming"
  /\ emitted = <<TextHe>>
  /\ buffer # <<>>
  /\ pos < Len(wire)

\* C8 (as claimed): a malformed document is dropped and the documents after
\* it still yield their deltas.
C8_MalformedDocumentIsDropped ==
  \A text \in {TextHe, TextLlo} :
    (how = "eof" /\ wire = <<"{", "x", "}">> \o GeminiDoc(text)) => emitted = <<text>>

(***************************************************************************)
(* Properties of the event-stream decoder                                  *)
(***************************************************************************)
\* the complete lines of bytes, without their newlines
RECURSIVE CompleteLines(_)
CompleteLines(bytes) ==
  LET nl == IndexOfNL(bytes)
  IN  IF nl = 0 THEN <<>>
      ELSE <<SubSeq(bytes, 1, nl - 1)>> \o CompleteLines(SubSeq(bytes, nl + 1, Len(bytes)))

Payload(line) ==
  LET text == Utf8DecodeAll(line)
  IN  Strip(SubSeq(text, Len(DATA_PREFIX) + 1, Len(text)))

IsDataLine(line) == StartsWith(Utf8DecodeAll(line), DATA_PREFIX)
IsDoneLine(line) == IsDataLine(line) /\ Payload(line) = DONE_SENTINEL
IsJsonLine(line) == IsDataLine(line) /\ ~IsDoneLine(line) /\ RawDecode(Payload(line)).ok

\* the text at choices[0].delta.content of a data line, <<>> when there is none
ContentOf(line) ==
  LET obj     == RawDecode(Payload(line)).v
      choices == IF obj.k = "obj" THEN DictGet(obj, <<"h">>, EmptyList) ELSE EmptyList
      first   == IF choices.k = "list" /\ choices.el # <<>> THEN choices.el[1] ELSE EmptyDict
      delta   == IF first.k = "obj" THEN DictGet(first, <<"d">>, EmptyDict) ELSE EmptyDict
      content == IF delta.k = "obj" THEN DictGet(delta, <<"n">>, EmptyStr) ELSE EmptyStr
  IN  IF content.k = "str" THEN content.s ELSE <<>>

\* the deltas of the lines, in order: one for each data line with a text
RECURSIVE LineDeltas(_)
LineDeltas(lines) ==
  IF lines = <<>> THEN <<>>
  ELSE (IF IsJsonLine(Head(lines)) /\ ContentOf(Head(lines)) # <<>>
          THEN <<ContentOf(Head(lines))>> ELSE <<>>) \o LineDeltas(Tail(lines))

\* the lines before the first `data: [DONE]` line, all lines when there is none
RECURSIVE BeforeDone(_)
BeforeDone(lines) ==
  IF lines = <<>> \/ IsDoneLine(Head(lines)) THEN <<>>
  ELSE <<Head(lines)>> \o BeforeDone(Tail(lines))

HasDoneLine(bytes) == \E i \in 1 .. Len(CompleteLines(bytes)) : IsDoneLine(CompleteLines(bytes)[i])

\* C6: once `data: [DONE]` was seen the generator has ended; the deltas of
\* the lines before it are all emitted and nothing of what follows it is,
\* whether it was in the buffer already or was still to arrive.
C6_DoneIsTerminal ==
  /\ how = "done" =>
       /\ gen = "ended"
       /\ HasDoneLine(Prefix(pos))
       /\ emitted = LineDeltas(BeforeDone(CompleteLines(wire)))
  /\ (~self.is_gemini /\ gen = "streaming") => ~HasDoneLine(Prefix(pos))

\* [DONE] ended the stream after "Hi" while a later data line was in the buffer
C6_Witness ==
  /\ how = "done"
  /\ emitted = <<TextHi>>
  /\ pos = Len(wire)
  /\ LineDeltas(CompleteLines(wire)) = <<TextHi, <<"x">>>>

\* a line the decoder passes over: no data line, or a data line that is no JSON
IsPassedOver(line) == ~IsDataLine(line) \/ (~IsDoneLine(line) /\ ~RawDecode(Payload(line)).ok)

\* every data line of bytes that is JSON carries a text
AllJsonLinesHaveText(bytes) ==
  \A i \in 1 .. Len(CompleteLines(bytes)) :
    LET line == CompleteLines(bytes)[i]
    IN  IsPassedOver(line) \/ (IsJsonLine(line) /\ ContentOf(line) # <<>>)

\* C9: a data line that is no JSON and a line without the `data: ` prefix are
\* passed over: they do not end the stream, and the deltas of the well-formed
\* lines read so far are emitted in order.
C9_BadLinesArePassedOver ==
  (~self.is_gemini /\ Decoding /\ AllJsonLinesHaveText(Prefix(pos))) =>
    /\ how \in {"", "eof"}
    /\ emitted = LineDeltas(CompleteLines(Prefix(pos)))

\* a data line that is no JSON was passed over and the next line gave "Hi"
C9_Witness ==
  /\ wire = DATA_PREFIX \o <<"k", NL>> \o OpenAILine(TextHi)
  /\ how = "eof"
  /\ emitted = <<TextHi>>

\* C10 (as claimed): a data line whose JSON has no text at
\* choices[0].delta.content yields nothing and does not end the stream; the
\* deltas of the later lines are still emitted.
C10_ExtractionFailsSoft ==
  \A payload \in { <<"{", "}">>,
                   Member("h", <<"[", "]">>),
                   Member("h", ListOf(Member("d", NullLiteral))),
                   Member("h", ListOf(Member("d", Member("n", NullLiteral)))) } :
    (gen = "ended" /\ Decoding
       /\ wire = DATA_PREFIX \o payload \o <<NL>> \o OpenAILine(TextHi)) =>
      /\ how = "eof"
      /\ emitted = <<TextHi>>

(***************************************************************************)
(* Text extraction and buffer of the concatenated-JSON decoder             *)
(***************************************************************************)
\* documents that parse but carry no text at candidates[0].content.parts[0].text:
\* key missing, empty list, null value, element that is not an object
GeminiTextless ==
  { <<"{", "}">>,
    Member("c", <<"[", "]">>),
    Member("c", NullLiteral),
    Member("c", ListOf(Member("n", NullLiteral))),
    Member("c", ListOf(Member("n", Member("p", ListOf(Member("t", NullLiteral)))))),
    <<"1", "0">> }

\* C11 (as claimed): a document that parses but carries no text at
\* candidates[0].content.parts[0].text yields no delta and does not end the
\* stream; it is consumed and the document after it still yields its delta.
C11_GeminiExtractionFailsSoft ==
  \A doc \in GeminiTextless :
    (gen = "ended" /\ Decoding
       /\ wire = doc \o GeminiDoc(TextHe)) =>
      /\ how = "eof"
      /\ emitted = <<TextHe>>
      /\ buffer = <<>>

\* s is the end of t
IsSuffix(s, t) == Len(s) <= Len(t) /\ SubSeq(t, Len(t) - Len(s) + 1, Len(t)) = s

\* the text the UTF-8 decoder has handed to the buffer once pos bytes are read
DecodedSoFar == Utf8Run(Prefix(pos), FALSE).out

\* a complete document with text stands somewhere in buf (the documents "He"
\* and "llo" stand at the top level of every body they occur in)
HoldsCompleteDocument(buf) ==
  \E text \in {TextHe, TextLlo} :
    \E i \in 1 .. Len(buf) : StartsWith(SubSeq(buf, i, Len(buf)), GeminiDoc(text))

\* C12 (as claimed): between chunks, for any input, the buffer of the
\* concatenated-JSON decoder is empty or begins at a character that is no
\* whitespace, it is the unread end of the text decoded so far, and no
\* complete document is left in it unprocessed.
C12_GeminiBufferHoldsOneIncompleteDocument ==
  (self.is_gemini /\ res_status = 200 /\ how \in {"", "eof"}) =>
    /\ buffer = <<>> \/ ~IsSpace(buffer[1])
    /\ IsSuffix(buffer, DecodedSoFar)
    /\ ~HoldsCompleteDocument(buffer)

(***************************************************************************)
(* Buffer of the event-stream decoder                                      *)
(***************************************************************************)
\* the bytes after the last newline of bytes, all of them when there is none
AfterLastNL(bytes) ==
  LET at == {i \in 1 .. Len(bytes) : bytes[i] = NL}
  IN  IF at = {} THEN bytes
      ELSE SubSeq(bytes, (CHOOSE i \in at : \A j \in at : j <= i) + 1, Len(bytes))

\* C13: while the event stream has not ended, and when it ends with the end
\* of the body, the buffer holds no newline: it is the unfinished line after
\* the last newline read, every complete line having been consumed.
C13_OpenAIBufferHoldsOneIncompleteLine ==
  (~self.is_gemini /\ res_status = 200 /\ how \in {"", "eof"}) =>
    /\ IndexOfNL(buffer) = 0
    /\ buffer = AfterLastNL(Prefix(pos))

\* two lines arrived before the end of the unfinished third: only that one is
\* retained
C13_Witness ==
  /\ wire = OpenAILine(TextHi) \o SubSeq(OpenAILine(<<"x">>), 1, Len(OpenAILine(<<"x">>)) - 1)
  /\ gen = "streaming"
  /\ emitted = <<TextHi>>
  /\ buffer = SubSeq(OpenAILine(<<"x">>), 1, Len(OpenAILine(<<"x">>)) - 1)

(***************************************************************************)
(* Order and growth of the delta sequence                                  *)
(***************************************************************************)
\* the text at candidates[0].content.parts[0].text of a value, <<>> when there is none
TextOf(item) ==
  LET candidates == IF item.k = "obj" THEN DictGet(item, <<"c">>, EmptyList) ELSE EmptyList
      first      == IF candidates.k = "list" /\ candidates.el # <<>> THEN candidates.el[1] ELSE EmptyDict
      content    == IF first.k = "obj" THEN DictGet(first, <<"n">>, EmptyDict) ELSE EmptyDict
      parts      == IF content.k = "obj" THEN DictGet(content, <<"p">>, EmptyList) ELSE EmptyList
      part       == IF parts.k = "list" /\ parts.el # <<>> THEN parts.el[1] ELSE EmptyDict
      text       == IF part.k = "obj" THEN DictGet(part, <<"t">>, EmptyStr) ELSE EmptyStr
  IN  IF text.k = "str" THEN text.s ELSE <<>>

\* the texts of the elements of a list, in list order
RECURSIVE ElementTexts(_)
ElementTexts(el) ==
  IF el = <<>> THEN <<>>
  ELSE (IF TextOf(Head(el)) # <<>> THEN <<TextOf(Head(el))>> ELSE <<>>) \o ElementTexts(Tail(el))

\* the texts of the complete documents of text, in the order of the documents
RECURSIVE DocumentTexts(_)
DocumentTexts(text) ==
  LET b == LStrip(text)
      r == RawDecode(b)
  IN  IF b = <<>> \/ ~r.ok THEN <<>>
      ELSE ElementTexts(IF r.v.k = "list" THEN r.v.el ELSE <<r.v>>)
             \o DocumentTexts(SubSeq(b, r.e, Len(b)))

\* the deltas that the bytes read so far imply, in the order of the stream
Derivable ==
  IF self.is_gemini THEN DocumentTexts(DecodedSoFar)
  ELSE LineDeltas(BeforeDone(CompleteLines(Prefix(pos))))

\* C14 (as claimed): whenever chunks have been processed, the deltas delivered
\* are exactly the texts of the complete documents or lines read so far, in
\* the order of the stream and with the elements of a list in list order:
\* nothing derivable is held back or lost.
C14_DeltasInStreamOrderUnbatched ==
  /\ Decoding => emitted = Derivable
  /\ (Decoding /\ Prefix(pos) = <<"{", "x", "}">> \o GeminiDoc(TextHe)) => emitted = <<TextHe>>
  /\ (how = "eof" /\ wire = ListOf(GeminiDoc(<<"a">>) \o <<",", SP>> \o GeminiDoc(<<"b">>))
                               \o GeminiDoc(TextHe)) =>
       emitted = <<(<<"a">>), (<<"b">>), TextHe>>
  /\ (how = "eof" /\ wire = OpenAILine(TextWide) \o OpenAILine(TextHi)) =>
       emitted = <<(<<WideChar>>), TextHi>>

IsPrefixOf(s, t) == Len(s) <= Len(t) /\ SubSeq(t, 1, Len(s)) = s

\* C15: every step leaves the deltas delivered so far in place and at most
\* appends to them, and once the generator has ended (end of stream, [DONE],
\* status other than 200, transport error, exception while decoding, caller
\* gone) it stays ended and nothing more is delivered.
C15_DeltasAppendOnly ==
  [][/\ IsPrefixOf(emitted, emitted')
     /\ gen = "ended" => (gen' = "ended" /\ emitted' = emitted /\ how' = how)]_vars

\* the transport failed after "He" was delivered and before the body was read
\* to its end: the delta is still there
C15_Witness ==
  /\ how = "transport"
  /\ res_status = 200
  /\ emitted = <<TextHe>>
  /\ pos < Len(wire)

(***************************************************************************)
(* The upstream connection                                                 *)
(***************************************************************************)
\* C16: a request calls network.stream at most once: not at all before the
\* generator runs, and exactly once when the generator has ended for any
\* reason of its own (end of stream, [DONE], status other than 200, transport
\* error, exception while decoding).
C16_AtMostOneUpstreamAttempt ==
  /\ netCalls \in {0, 1}
  /\ gen \in {"none", "created"} => netCalls = 0
  /\ gen = "streaming" => netCalls = 1
  /\ how \in {"eof", "done", "status", "transport", "crash"} => netCalls = 1

\* network.stream itself raised (timeout, connection error): the request has
\* ended after its one attempt
C16_Witness ==
  /\ gen = "ended"
  /\ how = "transport"
  /\ res_status = 0
  /\ netCalls = 1

AloneDeltas(r) ==
  LET bytes == SubSeq(r.wire, 1, r.pos)
  IN  IF self.is_gemini THEN DocumentTexts(Utf8Run(bytes, FALSE).out)
      ELSE LineDeltas(BeforeDone(CompleteLines(bytes)))

\* what request r would have retained, alone, from the bytes it has read
AloneBuffer(r) ==
  LET bytes == SubSeq(r.wire, 1, r.pos)
  IN  IF self.is_gemini
        THEN (IF bytes = <<>> THEN <<>> ELSE GeminiFeed(<<>>, <<>>, bytes).buffer)
        ELSE AfterLastNL(bytes)

Isolated(r) ==
  /\ IsPrefixOf(r.emitted, AloneDeltas(r))
  /\ r.how \in {"", "eof", "done"} => r.emitted = AloneDeltas(r)
  /\ (r.gen = "streaming" \/ r.how = "eof") => r.buffer = AloneBuffer(r)
  /\ r.gen \in {"none", "created"} => (r.buffer = <<>> /\ r.emitted = <<>>)

\* C18: under every interleaving of two requests, what each has delivered and
\* what each retains are those of the same request run alone on the bytes it
\* has read, and no step of either writes the plugin's configuration or secret.
C18_ConcurrentRequestsAreIsolated ==
  /\ [](Isolated(Private) /\ Isolated(peer))
  /\ [][self' = self]_vars

\* both requests are in the middle of a document or line of their own
C18_Witness ==
  /\ gen = "streaming"
  /\ peer.gen = "streaming"
  /\ buffer # <<>>
  /\ peer.buffer # <<>>
  /\ wire # peer.wire

(***************************************************************************)
(* Tokens presented again, and tokens as issued                            *)
(***************************************************************************)
\* b presents the token that passed for a, at b's later time, and has the
\* answer a had if the token is then no older than TOKEN_EXPIRY_SEC
ReplayPasses(a, b) ==
  (/\ a.data = b.data
   /\ a.now <= b.now
   /\ a.status \in {200, 400}
   /\ b.status # 0
   /\ Numeric(TsOf(b.data.tk))
   /\ b.now - Seconds(ParseFloat(TsOf(b.data.tk)).val) <= Seconds(TOKEN_EXPIRY_SEC)) =>
    b.status = a.status

\* C19: verification changes no state of the server: no step writes the
\* configuration or the secret, and a token that passed once passes again
\* whenever it is presented later while now - ts <= TOKEN_EXPIRY_SEC.
C19_VerificationIsStatelessReplayPasses ==
  /\ [](ReplayPasses(Private, peer) /\ ReplayPasses(peer, Private))
  /\ [][self' = self]_vars

\* the token passed at first and passed again when it was exactly
\* TOKEN_EXPIRY_SEC old
C19_Witness ==
  /\ status = 200
  /\ peer.status = 200
  /\ peer.data = data
  /\ peer.now < now
  /\ Age(TsOf(data.tk)) = Seconds(TOKEN_EXPIRY_SEC)

C21_WarmupIs200 ==
  (status # 0 /\ data.warmup) =>
    (status = 200 /\ HandlerBody(self, data, now) = "" /\ netCalls = 0)

\* C21: a warmup probe, whatever its token and whatever the configuration, is
\* answered with status 204 and an empty body; no generator is created for
\* it and no upstream call is ever made.
C21_WarmupIs204 ==
  (status # 0 /\ data.warmup) =>
    /\ status = 204
    /\ HandlerBody(self, data, now) = ""
    /\ gen = "none"
    /\ netCalls = 0

\* a warmup probe without a token was answered by a configured plugin
C21_Witness ==
  /\ status = 204
  /\ data.warmup
  /\ data.tk.t = "absent"
  /\ self.api_key # <<>>

(***************************************************************************)
(* Zero-length chunks                                                      *)
(***************************************************************************)
\* the OpenAI-compatible decoder fed all of bytes as one chunk
OpenAIWhole(bytes) ==
  IF bytes = <<>> THEN [buffer |-> <<>>, out |-> <<>>, end |-> ""]
  ELSE OpenAIFeed(<<>>, bytes)

\* what has been delivered and retained is what the bytes read so far give
\* when they arrive as one chunk, with no zero-length chunk anywhere
AsIfNoneOccurred ==
  IF self.is_gemini
    THEN LET whole == GeminiWhole(Prefix(pos))
         IN  /\ emitted = whole.out
             /\ (gen = "ended") = (whole.exc \/ how = "eof")
             /\ gen = "streaming" => (buffer = whole.buffer /\ pending = whole.pending)
    ELSE LET whole == OpenAIWhole(Prefix(pos))
         IN  /\ emitted = whole.out
             /\ (gen = "ended") = (whole.end # "" \/ how = "eof")
             /\ gen = "streaming" => buffer = whole.buffer

\* C22: the step that takes a zero-length chunk from the transport leaves
\* the deltas, the buffer, the undecoded bytes and the position as they were
\* and the generator streaming; and in every state after one, what has been
\* delivered and retained is what the bytes read give without it, and the
\* generator has ended only if those bytes or the end of the body end it.
C22_ZeroLengthChunkIsIgnored ==
  /\ []((empties > 0 /\ Decoding) => AsIfNoneOccurred)
  /\ [][empties' # empties =>
          /\ gen = "streaming" /\ gen' = "streaming"
          /\ emitted' = emitted /\ buffer' = buffer /\ pending' = pending
          /\ pos' = pos /\ chunk_gen' = chunk_gen /\ how' = how]_vars

\* a zero-length chunk has arrived, and the bytes read since the stream
\* began have given a delta and the beginning of a further unit
C22_Witness ==
  /\ empties > 0
  /\ gen = "streaming"
  /\ emitted # <<>>
  /\ buffer # <<>>
  /\ pos < Len(wire)

(***************************************************************************)
(* The prompt and the request sent upstream                                *)
(***************************************************************************)
\* the prompt in the request that was sent
PromptSent ==
  IF self.is_gemini THEN sent.json.contents[1].parts[1].text
  ELSE sent.json.messages[1].content

Directives == {TASK_CONTINUE, TASK_FOLLOW_UP, TASK_ANSWER_FIRST}

\* the places of the prompt p that hold a task directive
DirectivePlaces(p) == {i \in 1 .. Len(p) : p[i] \in Directives}

\* the place of the first rule of the instruction block of p
FirstRulePlace(p) ==
  (CHOOSE i \in 1 .. Len(p) : p[i] = INSTRUCTIONS_OPEN) + 4

QueryIsContinue == "q" \in DOMAIN data /\ data.q = Str(CONTINUE_QUERY)
HasPriorAnswer ==
  /\ "prev_answer" \in DOMAIN data
  /\ data.prev_answer.t = "str"
  /\ data.prev_answer.s # <<>>

\* C23: the prompt sent upstream holds exactly one task directive, as rule 1
\* of its instruction block: the continuation directive when the query is
\* "Continue", with or without a prior answer; otherwise the follow-up
\* directive when the prior answer is non-empty, and the direct-answer
\* directive when it is empty, null or missing.
C23_ContinueTakesPrecedence ==
  sent # NoCall =>
    LET p == PromptSent
    IN  /\ DirectivePlaces(p) = {FirstRulePlace(p)}
        /\ p[FirstRulePlace(p)] =
             IF QueryIsContinue THEN TASK_CONTINUE
             ELSE IF HasPriorAnswer THEN TASK_FOLLOW_UP
             ELSE TASK_ANSWER_FIRST

\* "Continue" was sent with a prior answer, and the prompt went upstream
C23_Witness ==
  /\ sent # NoCall
  /\ QueryIsContinue
  /\ HasPriorAnswer
  /\ TASK_CONTINUE \in {PromptSent[i] : i \in 1 .. Len(PromptSent)}

\* the closing tag of an open tag: <name> gives </name>
ClosingTag(open) == <<open[1], "/">> \o Tail(open)

\* the stop sequences of the request that was sent
StopSent ==
  IF self.is_gemini THEN sent.json.generationConfig.stopSequences ELSE sent.json.stop

\* C24: in every request sent upstream, of either shape, the prompt ends with
\* the open tag <answer> and the list of stop sequences holds one entry, the
\* closing tag of that open tag, </answer>.
C24_StopSequenceClosesAnswerTag ==
  sent # NoCall =>
    LET p    == PromptSent
        last == SubSeq(p, Len(p) - Len(ANSWER_OPEN) + 1, Len(p))
    IN  /\ last = <<"<", "answer", ">">>
        /\ StopSent = <<ClosingTag(last)>>
        /\ StopSent = << <<"<", "/", "answer", ">">> >>
        /\ self.is_gemini => ~("stop" \in DOMAIN sent.json)
        /\ ~self.is_gemini => ~("generationConfig" \in DOMAIN sent.json)

\* a request of the streaming-JSON shape was sent for a query with a prior
\* answer and sources
C24_Witness ==
  /\ sent # NoCall
  /\ self.is_gemini
  /\ HasPriorAnswer
  /\ ContextOf(data) # <<>>
  /\ StopSent # <<>>

\* the values sent under the header called name
HeaderValues(name) == {h[2] : h \in {x \in sent.headers : x[1] = name}}

\* C25: every request of the OpenAI-compatible shape carries the key in one
\* header: for the provider azure in api-key, as it is, with no Authorization
\* header; for every other provider in Authorization, after "Bearer ", with
\* no api-key header.
C25_OneCredentialHeader ==
  (sent # NoCall /\ ~self.is_gemini) =>
    IF self.provider = "azure"
      THEN /\ HeaderValues("api-key") = {self.api_key}
           /\ HeaderValues("Authorization") = {}
      ELSE /\ HeaderValues("Authorization") = {<<"Bearer ">> \o self.api_key}
           /\ HeaderValues("api-key") = {}

\* a request went to an azure endpoint
C25_Witness ==
  /\ sent # NoCall
  /\ self.provider = "azure"
  /\ self.api_key = <<"K">>
  /\ <<"api-key", <<"K">> >> \in sent.headers

(***************************************************************************)
(* Configuration                                                           *)
(***************************************************************************)
\* the plugin has been constructed
Loaded == self # NotLoaded /\ self.error = ""

\* the provider identifier is given and is none of the preset table
UnknownProvider == environ.LLM_PROVIDER # "" /\ environ.LLM_PROVIDER \notin PRESET_PROVIDERS

\* C26: with a provider identifier that is not in the preset table the
\* construction of the plugin never raises; once it is done a warning about
\* the identifier is in the log, the provider is openai and not gemini, the
\* sampling parameters are the defaults 500 and 0.2 wherever the environment
\* gives none (or no number), every request sent upstream has the
\* OpenAI-compatible shape, and the body is read by the event-stream decoder:
\* a data line yields its delta, a JSON document on its own yields nothing.
C26_UnknownProviderFallsBack ==
  (UnknownProvider /\ self # NotLoaded) =>
    /\ self.error = ""
    /\ UNKNOWN_PROVIDER \in {self.log[i] : i \in 1 .. Len(self.log)}
    /\ self.provider = "openai"
    /\ ~self.is_gemini
    /\ environ.LLM_MAX_TOKENS \in {<<>>, <<"x">>} => self.max_tokens = 500
    /\ environ.LLM_TEMPERATURE \in {<<>>, <<"x">>} =>
         self.temperature = [nan |-> FALSE, tenths |-> 2]
    /\ sent # NoCall =>
         /\ DOMAIN sent.json = {"model", "messages", "stream", "max_tokens", "temperature", "stop"}
         /\ sent.json.max_tokens = self.max_tokens
         /\ sent.json.temperature = self.temperature
    /\ how = "eof" =>
         emitted = IF wire = OpenAILine(TextHi) THEN <<TextHi>> ELSE <<>>

\* an unknown provider without sampling parameters has streamed a data line
C26_Witness ==
  /\ environ.LLM_PROVIDER = "mistral"
  /\ environ.LLM_MAX_TOKENS = <<>>
  /\ how = "eof"
  /\ emitted = <<TextHi>>
  /\ sent # NoCall

\* url with model in the place of its placeholder, if it has one
WithModel(url, model) ==
  LET at == {i \in 1 .. Len(url) : url[i] = "{model}"}
  IN  IF at = {} THEN url
      ELSE LET i == CHOOSE j \in at : TRUE
           IN  SubSeq(url, 1, i - 1) \o model \o SubSeq(url, i + 1, Len(url))

\* url as it is when it names its scheme, else behind https://
WithScheme(url) ==
  IF url # <<>> /\ url[1] \in {"http://", "https://"} THEN url ELSE <<"https://">> \o url

\* the values the environment configures, blanks at the ends apart
ConfiguredUrl == Strip(environ.LLM_URL)
ConfiguredModel == Strip(environ.LLM_MODEL.val)

\* C27: once the plugin has a provider, its model is the value of LLM_MODEL
\* when the variable is set and the model of the provider's preset
\* otherwise; its endpoint is the value of LLM_URL when that is not empty,
\* and otherwise the URL of the preset with {model} replaced by that model
\* (either of them behind https:// when it names no scheme); the endpoint is
\* where requests go; and no endpoint results only when LLM_URL is empty and
\* the preset has no URL.
C27_ConfigurationOverridesPreset ==
  (self # NotLoaded /\ self.provider # "") =>
    LET preset == PROVIDER_PRESETS[self.provider]
    IN  /\ self.model = IF environ.LLM_MODEL.set THEN ConfiguredModel ELSE preset.model
        /\ ConfiguredUrl # <<>> =>
             /\ self.error = ""
             /\ self.endpoint_url = Str(WithScheme(ConfiguredUrl))
        /\ (ConfiguredUrl = <<>> /\ preset.url # None) =>
             /\ self.error = ""
             /\ self.endpoint_url = Str(WithModel(preset.url.s, self.model))
        /\ self.error # "" => (ConfiguredUrl = <<>> /\ preset.url = None)
        /\ sent # NoCall =>
             /\ StartsWith(sent.url, self.endpoint_url.s)
             /\ ~self.is_gemini => (sent.url = self.endpoint_url.s /\ sent.json.model = self.model)

\* a configured model has gone into the preset URL of gemini, and a request
\* has gone there
C27_Witness ==
  /\ self.provider = "gemini"
  /\ environ.LLM_URL = <<>>
  /\ environ.LLM_MODEL = Given(<<SP, "m">>)
  /\ self.endpoint_url.s[4] = "m"
  /\ sent # NoCall

\* the hosts that name this machine
LoopbackHosts == {"localhost", "127.0.0.1", "[::1]"}

\* url is a plain-HTTP URL whose host is not this machine
PlainHttpElsewhere(url) ==
  /\ Len(url) >= 2
  /\ url[1] = "http://"
  /\ url[2] \notin LoopbackHosts

\* C28 (as claimed): whenever the endpoint the plugin has resolved is an
\* http:// URL whose host is not a loopback address, a warning about it is in
\* the log.
C28_PlainHttpElsewhereIsWarned ==
  (Loaded /\ self.endpoint_url # None /\ PlainHttpElsewhere(self.endpoint_url.s)) =>
    \E i \in 1 .. Len(self.log) :
      self.log[i].level = "warning" /\ self.log[i].about # UNKNOWN_PROVIDER.about

(***************************************************************************)
(* The page fragment                                                       *)
(***************************************************************************)
\* interactive mode is enabled: LLM_INTERACTIVE is not set, or is one of
\* true, 1, yes, on in any case and between blanks
InteractiveEnabled ==
  \/ ~environ.LLM_INTERACTIVE.set
  \/ environ.LLM_INTERACTIVE.val \in
       { <<"true">>, <<SP, "TRUE", SP>>, <<"on">>, <<"1">>, <<"yes">> }

\* the tokens of the fragment post_search added
PageTokens == {answers[1][i] : i \in 1 .. Len(answers[1])}

\* C29: the fragment post_search adds to the answers always holds the stream
\* box and the startStream signature with its three parameters, and holds
\* the footer element exactly when interactive mode is enabled, whatever the
\* query.
C29_PageHasBoxSignatureAndFooterIffInteractive ==
  answers # <<>> =>
    /\ Len(answers) = 1
    /\ "<article id=\"sxng-stream-box\" class=\"answer\" style=\"display:none; margin: 1rem 0;\">"
         \in PageTokens
    /\ "async function startStream(overrideQ = null, prevAnswer = null, auxContext = null)"
         \in PageTokens
    /\ ("<div id=\"sxng-footer\" class=\"sxng-footer\" style=\"display:none;\">" \in PageTokens)
         <=> InteractiveEnabled

\* a fragment without the footer was added for LLM_INTERACTIVE=false
C29_Witness ==
  /\ answers # <<>>
  /\ environ.LLM_INTERACTIVE = Given(<<"false">>)
  /\ FOOTER \notin PageTokens
  /\ STREAM_BOX \in PageTokens

(***************************************************************************)
(* Upstream failures and the response                                      *)
(***************************************************************************)
\* the request carries a token signed with the secret and not expired
Authenticated ==
  /\ Verified
  /\ HasDot(data.tk)
  /\ SignedBy(data.tk, self.secret)
  /\ Numeric(TsOf(data.tk))
  /\ Age(TsOf(data.tk)) <= Seconds(TOKEN_EXPIRY_SEC)

\* C30: an authenticated request to a plugin with a credential is answered
\* 200, and the status stays 200 whatever the upstream does; a status other
\* than 200, an error of the transport and an exception raised while reading
\* or decoding each end the generator without leaving it, and the deltas
\* delivered before the failure stay as they are: the first two deliver
\* nothing more, the exception only what its chunk yielded before it.
C30_UpstreamFailureOnlyEndsTheStream ==
  /\ []((Authenticated /\ self.api_key # <<>>) => (status = 200 /\ gen \notin {"none", "raised"}))
  /\ [][/\ status = 200 => status' = 200
        /\ (gen # "ended" /\ how' \in {"status", "transport", "crash"}) =>
             /\ gen' = "ended"
             /\ IsPrefixOf(emitted, emitted')
             /\ how' \in {"status", "transport"} => emitted' = emitted]_vars

\* a Gemini list delivered "a" and then an element that is no object raised:
\* the response is 200, the generator has ended and the delta is there
C30_Witness ==
  /\ self.is_gemini
  /\ Authenticated
  /\ status = 200
  /\ gen = "ended"
  /\ how = "crash"
  /\ emitted = << <<"a">> >>

(***************************************************************************)
(* The end of the input                                                    *)
(***************************************************************************)
\* the upstream answered 200 and its body was read to the end
InputEnded == res_status = 200 /\ chunk_gen = "exhausted"

\* the decoded text in front of what the buffer retains
Consumed == SubSeq(DecodedSoFar, 1, Len(DecodedSoFar) - Len(buffer))

\* C31: when the input of the concatenated-JSON decoder ends with content in
\* the buffer, that content is no complete document, the generator ends as at
\* any end of input, without an exception and with status 200, the last step
\* delivers nothing, and the deltas delivered are those of the complete
\* documents in front of the retained content.
C31_GeminiRemainderDiscardedSilently ==
  /\ []((self.is_gemini /\ InputEnded /\ buffer # <<>>) =>
          /\ gen = "ended"
          /\ how = "eof"
          /\ status = 200
          /\ ~RawDecode(buffer).ok
          /\ IsSuffix(buffer, DecodedSoFar)
          /\ emitted = DocumentTexts(Consumed))
  /\ [][(self.is_gemini /\ chunk_gen' = "exhausted" /\ res_status' = 200 /\ chunk_gen = "open") =>
          emitted' = emitted]_vars

\* the body ended inside the document "llo", after "He" was delivered
C31_Witness ==
  /\ self.is_gemini
  /\ InputEnded
  /\ how = "eof"
  /\ emitted = <<TextHe>>
  /\ buffer # <<>>
  /\ StartsWith(GeminiDoc(TextLlo), buffer)

(***************************************************************************)
(* Termination                                                             *)
(***************************************************************************)
\* the test of the drain loop: `while buffer` and `while b"\n" in buffer`
DrainContinues(gemini, buf) == IF gemini THEN buf # <<>> ELSE IndexOfNL(buf) # 0

\* the drain loop run for at most fuel iterations: whether it ended, whether
\* every iteration that stayed in the loop left a strictly shorter buffer, and
\* the buffer at the end
RECURSIVE DrainRun(_, _, _)
DrainRun(gemini, buf, fuel) ==
  IF ~DrainContinues(gemini, buf) THEN [ended |-> TRUE, shorter |-> TRUE, buffer |-> buf]
  ELSE IF fuel = 0 THEN [ended |-> FALSE, shorter |-> TRUE, buffer |-> buf]
  ELSE LET it == IF gemini THEN GeminiIteration(buf) ELSE OpenAIIteration(buf)
       IN  IF it.exit THEN [ended |-> TRUE, shorter |-> TRUE, buffer |-> it.buffer]
           ELSE IF Len(it.buffer) >= Len(buf) THEN [ended |-> FALSE, shorter |-> FALSE, buffer |-> it.buffer]
           ELSE DrainRun(gemini, it.buffer, fuel - 1)

\* the buffer the drain loop starts from when the chunk of this step arrives
DrainStart ==
  LET chunk == SubSeq(wire, pos + 1, pos')
  IN  IF self.is_gemini THEN buffer \o Utf8Incremental(pending, chunk).out ELSE buffer \o chunk

Completed == gen = "ended" /\ how \in {"eof", "done"}
Failed == gen = "ended" /\ how \in {"status", "transport", "crash"}

\* C32: for every chunk the drain loop of either decoder ends within as many
\* iterations as the buffer is long, each iteration that stays in the loop
\* leaving a strictly shorter buffer, and the buffer it ends with is the one
\* the decoder retains; a request that streams, with a caller that stays and
\* an upstream that sends finitely many chunks, ends Completed or Failed.
C32_EveryStreamTerminates ==
  /\ [][(gen = "streaming" /\ pos' > pos) =>
          LET run == DrainRun(self.is_gemini, DrainStart, Len(DrainStart))
          IN  run.ended /\ run.shorter /\ buffer' = run.buffer]_vars
  /\ [](gen = "ended" => (Completed \/ Failed))
  /\ (gen = "streaming") ~> (Completed \/ Failed)

\* two documents arrived in one chunk and the loop went round twice before
\* the stream completed
C32_Witness ==
  /\ self.is_gemini
  /\ Completed
  /\ emitted = <<TextHe, TextLlo>>
  /\ buffer = <<>>

(***************************************************************************)
(* The instruction block                                                   *)
(***************************************************************************)
\* the text between the lines <instructions> and </instructions> of p
InstructionBlock(p) ==
  LET a == CHOOSE i \in 1 .. Len(p) : p[i] = "<instructions>"
      b == CHOOSE i \in 1 .. Len(p) : p[i] = "</instructions>"
  IN  SubSeq(p, a + 2, b - 2)

\* the lines of s
RECURSIVE SplitNL(_)
SplitNL(s) ==
  IF IndexOfNL(s) = 0 THEN <<s>>
  ELSE <<SubSeq(s, 1, IndexOfNL(s) - 1)>> \o SplitNL(SubSeq(s, IndexOfNL(s) + 1, Len(s)))

\* line i of lines is "i. " and then rule
IsRule(lines, i, rule) == i <= Len(lines) /\ lines[i] = DecimalDigits(i) \o <<". ">> \o rule

\* C33: the instruction block of the prompt sent upstream has its lines
\* numbered 1, 2, 3, ... without gap; rules 2 to 5 are the fixed ones, with
\* the word budget a fifth of max_tokens; the history rule is there exactly
\* when the prior answer, of which the last 4000 characters are kept, is a
\* non-empty string, whatever the query, "Continue" included, and then it is
\* the last rule.
C33_HistoryRuleIffPriorAnswer ==
  sent # NoCall =>
    LET lines == SplitNL(InstructionBlock(PromptSent))
        n     == Len(lines)
    IN  /\ \A i \in 1 .. n : StartsWith(lines[i], DecimalDigits(i) \o <<". ">>)
        /\ n = IF HasPriorAnswer THEN 7 ELSE 6
        /\ IsRule(lines, 2, <<"DENSITY 4/5: Expert-briefing level. No filler, no transitions. Every sentence = new information.">>)
        /\ IsRule(lines, 3, <<"BREVITY: ">> \o DecimalDigits(self.max_tokens \div 5)
                              \o <<" words max. Complete, not verbose.">>)
        /\ IsRule(lines, 4, <<"CITATIONS: Cite format is [n] for facts from grounding sources">>)
        /\ IsRule(lines, 5, <<"NO HEDGE: State answers confidently. Note uncertainty only if critical.">>)
        /\ (\E i \in 1 .. n : \E j \in 1 .. Len(lines[i]) :
              lines[i][j] = "HISTORY: Refer to prior exchange for context. Ideally, do not repeat any claims.")
             <=> HasPriorAnswer
        /\ HasPriorAnswer =>
             IsRule(lines, 7, <<"HISTORY: Refer to prior exchange for context. Ideally, do not repeat any claims.">>)

\* "Continue" was sent with a prior answer longer than the window, and the
\* prompt that went upstream has the history rule as rule 7
C33_Witness ==
  /\ sent # NoCall
  /\ QueryIsContinue
  /\ HasPriorAnswer
  /\ Len(data.prev_answer.s) > PREV_ANSWER_WINDOW
  /\ IsRule(SplitNL(InstructionBlock(PromptSent)), 7, <<HISTORY_RULE>>)

(***************************************************************************)
(* Chunk boundaries of the event stream                                    *)
(***************************************************************************)
\* the bytes of the body that the event-stream decoder has taken lines from
LinesTaken(read, retained) == read - Len(retained)

\* C34: however the body of an event stream is cut into chunks, the deltas
\* delivered once the bytes up to pos are read, the retained bytes and
\* whether [DONE] or an exception has ended the stream are those of feeding
\* the same bytes as one chunk; and when the stream has ended, the deltas and
\* the line it ended at are those of feeding the whole body as one chunk.
C34_EventStreamChunkBoundaryIndependence ==
  /\ (~self.is_gemini /\ Decoding) =>
       LET whole == OpenAIWhole(Prefix(pos))
       IN  /\ emitted = whole.out
           /\ (how = "done") = (whole.end = "done")
           /\ (how = "crash") = (whole.end = "exc")
           /\ buffer = whole.buffer
  /\ (~self.is_gemini /\ how \in {"eof", "done", "crash"}) =>
       LET whole == OpenAIWhole(wire)
       IN  /\ emitted = whole.out
           /\ (how = "done") = (whole.end = "done")
           /\ (how = "crash") = (whole.end = "exc")
           /\ how # "eof" => LinesTaken(pos, buffer) = LinesTaken(Len(wire), whole.buffer)

\* "Hi" is out and a chunk boundary lies inside the [DONE] sentinel
C34_Witness ==
  /\ ~self.is_gemini
  /\ gen = "streaming"
  /\ emitted = <<TextHi>>
  /\ buffer = DATA_PREFIX \o <<"[", "D", "O">>

(***************************************************************************)
(* The last line of the event stream                                       *)
(***************************************************************************)
\* bytes up to and with its last newline
ThroughLastNL(bytes) == SubSeq(bytes, 1, Len(bytes) - Len(AfterLastNL(bytes)))

\* the deltas of the lines of bytes, were its last line ended by a newline
WithLastLine(bytes) == OpenAIWhole(bytes \o <<NL>>).out

\* C35: whatever the event-stream decoder has delivered comes from the bytes
\* up to the last newline read, the bytes behind it being retained as they
\* arrived; and when the body ends with bytes behind its last newline, a
\* whole `data: ` line among them, the generator ends as at any end of input,
\* without an exception and with status 200, and the last step delivers
\* nothing.
C35_UnterminatedLastLineIsDropped ==
  /\ []((~self.is_gemini /\ res_status = 200 /\ how \in {"", "eof"}) =>
          /\ emitted = OpenAIWhole(ThroughLastNL(Prefix(pos))).out
          /\ buffer = AfterLastNL(Prefix(pos)))
  /\ []((~self.is_gemini /\ InputEnded /\ buffer # <<>>) =>
          /\ gen = "ended"
          /\ how = "eof"
          /\ status = 200
          /\ emitted = OpenAIWhole(ThroughLastNL(wire)).out)
  /\ [][(~self.is_gemini /\ chunk_gen' = "exhausted" /\ res_status' = 200 /\ chunk_gen = "open") =>
          emitted' = emitted]_vars

\* the body ended with a data line for "x" that lacks its newline: "Hi" was
\* delivered, "x" was not
C35_Witness ==
  /\ ~self.is_gemini
  /\ InputEnded
  /\ how = "eof"
  /\ emitted = <<TextHi>>
  /\ StartsWith(buffer, DATA_PREFIX)
  /\ WithLastLine(wire) = <<TextHi, <<"x">> >>

(***************************************************************************)
(* Loading the configuration                                               *)
(***************************************************************************)
\* C36 (as claimed): once the plugin has been constructed with a provider
\* identifier, of the preset table or not, and with or without LLM_URL, the
\* construction has not raised and endpoint_url is a string that begins
\* with http:// or https://.
C36_ConfigurationLoadsWithEndpoint ==
  (self # NotLoaded /\ environ.LLM_PROVIDER # "") =>
    /\ self.error = ""
    /\ self.endpoint_url.t = "str"
    /\ self.endpoint_url.s # <<>>
    /\ self.endpoint_url.s[1] \in {"http://", "https://"}

\* the lines of text that begin with a label: "[" and a digit
LabelledLines(text) ==
  SelectSeq(SplitNL(text), LAMBDA l : Len(l) >= 2 /\ l[1] = "[" /\ IsDigit(l[2]))

\* line begins with the label [n] and then the host of url, www. aside
CitesUrl(line, n, url) ==
  /\ StartsWith(line, Label(n))
  /\ url # Null => StartsWith(StripWww(line), Label(n) \o StripWww(Netloc(url).s))

EndsWith(s, p) == Len(s) >= Len(p) /\ SubSeq(s, Len(s) - Len(p) + 1, Len(s)) = p

\* line gives the title of the result r, on one line, or its first
\* SHALLOW_TITLE_CHARS characters
CitesResult(line, r) ==
  \/ Contains(line, <<":", SP>> \o Flat(r.title) \o <<":", SP>>)
  \/ EndsWith(line, <<":", SP>> \o FirstChars(Flat(r.title), SHALLOW_TITLE_CHARS))

\* C37: in the context post_search gives the page, the labelled lines carry
\* the labels 1, 2, ..., k in this order; line n is about the n-th result of
\* the search and the n-th entry of the URL list is that result's URL; the
\* page starts with exactly k URLs.  In the context of an auxiliary search
\* made with the offset the script posted (the number of URLs it held), the
\* labelled lines carry offset+1, offset+2, ... in this order, and after the
\* script has appended the new URLs line offset+j is about entry offset+j of
\* its list, which has grown by as many entries as there are lines.
C37_CitationLabelsIndexTheUrlList ==
  client.loaded =>
    LET lines == LabelledLines(client.originalContext)
        k     == Len(lines)
    IN  /\ k <= Len(client.urls)
        /\ client.followUps = 0 => k = Len(client.urls)
        /\ k <= Len(search.results)
        /\ \A n \in 1 .. k :
             /\ CitesUrl(lines[n], n, client.urls[n])
             /\ CitesResult(lines[n], search.results[n])
             /\ client.urls[n] =
                  (IF search.results[n].url = Absent THEN Null ELSE search.results[n].url)
        /\ client.auxContext # Absent =>
             LET fresh == LabelledLines(client.auxContext.s)
                 m     == Len(fresh)
             IN  /\ m > 0
                 /\ client.auxOffset + m = Len(client.urls)
                 /\ \A j \in 1 .. m :
                      CitesUrl(fresh[j], client.auxOffset + j, client.urls[client.auxOffset + j])

\* a page built from one deep and one shallow source, the deep one without a
\* url, after two follow-up questions each of which brought two sources
C37_Witness ==
  /\ client.loaded
  /\ search.results = <<ResBare, ResLong, ResA>>
  /\ Len(LabelledLines(client.originalContext)) = 2
  /\ Contains(client.originalContext, <<"SHALLOW SOURCES (headlines):", NL, "[", "2", "]", SP, "c.io">>)
  /\ client.followUps = 2
  /\ client.auxOffset = 4
  /\ Len(client.urls) = 6
  /\ client.auxContext # Absent
  /\ Contains(client.auxContext.s, <<"[", "6", "]", SP, "d.dev">>)

\* the plugin is active, has an API key, and the search is for page 1 of a
\* tab that is allowed ('general' when the query names none)
PluginAnswersTab ==
  /\ self.active
  /\ self.api_key # <<>>
  /\ search.pageno = 1
  /\ IF search.categories = {} THEN "general" \in self.allowed_tabs
     ELSE \E tab \in search.categories : tab \in self.allowed_tabs

\* C38 as stated: there is an answer or a token only if, besides, the
\* request does not carry the X-AI-Auxiliary header
C38_NoAnswerToARequestWithTheHeader ==
  (answers # <<>> \/ data.tk.t # "absent") => (PluginAnswersTab /\ search.aux = Absent)

\* C38: a call of post_search adds at most one answer; there is an answer, a
\* token or a script only if the plugin is active, an API key is configured,
\* the page number is 1, the categories of the query ('general' when there
\* are none) meet the allowed tabs and the request has no X-AI-Auxiliary
\* header with a value that is not empty; otherwise the answers stay as they
\* were; and post_search returns, whatever it caught on the way.
C38_PostSearchAnswersOnlyWhenAllowed ==
  /\ [](/\ (answers # <<>> \/ data.tk.t # "absent" \/ client.loaded) =>
             (PluginAnswersTab /\ search.aux \in {Absent, Str(<<>>)})
        /\ search.done \in {"", "returned"}
        /\ search.logged # "" => answers = <<>>)
  /\ [][/\ Len(answers') <= Len(answers) + 1
        /\ answers' # answers =>
             /\ search.done = "" /\ search'.done = "returned"
             /\ data'.tk.t = "str"
             /\ SubSeq(answers', 1, Len(answers)) = answers]_vars

\* a search for page 1 that names no category, made without the header to a
\* plugin with the default tabs, got its one answer and a token
C38_Witness ==
  /\ search.done = "returned"
  /\ search.categories = {}
  /\ search.aux = Absent
  /\ ~environ.LLM_TABS.set
  /\ Len(answers) = 1
  /\ data.tk.t = "str"

\* the calls of startStream that have not ended
InProgress == {i \in 1 .. Len(client.streams) : client.streams[i].pc # "exit"}

\* the calls of startStream that were not turned away
Admitted == {i \in 1 .. Len(client.streams) : client.streams[i].exit # "ignored"}

\* C39: at most one call of startStream is in progress; isStreaming is true
\* exactly while one is, so it is false again after a call has ended with
\* success, with a status that is not OK, without a response or with an
\* exception; a call made while isStreaming is true ends at once without a
\* request to /ai-stream, a call made while it is false sends one.
C39_OneStreamAtATime ==
  /\ [](/\ Cardinality(InProgress) <= 1
        /\ client.isStreaming <=> InProgress # {}
        /\ client.fetches = Cardinality(Admitted))
  /\ [][Len(client'.streams) > Len(client.streams) =>
          IF client.isStreaming
            THEN /\ client'.fetches = client.fetches
                 /\ client'.streams[Len(client'.streams)] = Exited("ignored")
                 /\ client'.isStreaming
            ELSE /\ client'.fetches = client.fetches + 1
                 /\ client'.streams[Len(client'.streams)].pc = "fetch"]_vars

\* a call was turned away while another was reading, that one ended without a
\* response, and the call made after it is fetching
C39_Witness ==
  /\ Len(client.streams) = 3
  /\ client.streams[1].exit = "no response"
  /\ client.streams[2].exit = "ignored"
  /\ client.streams[3].pc = "fetch"
  /\ client.fetches = 2

====
